---------------------------- MODULE Spec2Model ----------------------------
(***************************************************************************)
(* MediVault: the medication entity-extraction and reconciliation engine   *)
(* of backend/services/bedrock_service.py (and its near-duplicate under    *)
(* AI/backend/services), with the request handler of backend/app.py.       *)
(*                                                                         *)
(* Strings are sequences of one-character strings, so that the similarity  *)
(* metric, case folding and tokenisation are computed character by         *)
(* character as the code computes them.                                    *)
(***************************************************************************)
EXTENDS Integers, Sequences, FiniteSets, TLC

VARIABLES
    pc,                 \* where the request stands
    body,               \* the reviewed_text field of the request body
    normalized,         \* the result of normalize_ocr_text
    call,               \* the external adapter: model tried, how it ended
    bedrock_result,     \* what the adapter returned
    bedrock_meds, bedrock_conditions, bedrock_allergies,
    fuzzy_lines,        \* extract_medications_fuzzy: lines
    fuzzy,              \* extract_medications_fuzzy: loop position, seen, medications
    fuzzy_meds,         \* what extract_medications_fuzzy returned
    merged_meds,
    stages,             \* the steps of normalize_and_extract completed so far
    response,           \* the HTTP response
    m_primary,      \* _merge_medications: argument bedrock_meds
    m_secondary,    \* _merge_medications: argument fuzzy_meds
    m_out,          \* _merge_medications: outcome (none yet / returned list / raised)
    m_pc,           \* position of the merge harness
    alias_index,    \* the module's ALIAS_TO_CANONICAL dict
    startup,        \* the loop that fills ALIAS_TO_CANONICAL at import
    direct,         \* a direct call of a module function: name, argument, result
    parked          \* the locals of a second request, when its thread is not running

vars == <<pc, body, normalized, call, bedrock_result, bedrock_meds, bedrock_conditions,
          bedrock_allergies, fuzzy_lines, fuzzy, fuzzy_meds, merged_meds, stages, response,
          m_primary, m_secondary, m_out, m_pc, alias_index, startup, direct, parked>>

----------------------------------------------------------------------------
(* Characters and Python string primitives                                 *)

UpperChars == <<"A","B","C","D","E","F","G","H","I","J","K","L","M",
                "N","O","P","Q","R","S","T","U","V","W","X","Y","Z">>
LowerChars == <<"a","b","c","d","e","f","g","h","i","j","k","l","m",
                "n","o","p","q","r","s","t","u","v","w","x","y","z">>
DigitChars == <<"0","1","2","3","4","5","6","7","8","9">>

Range(s) == {s[i] : i \in DOMAIN s}

UpperSet == Range(UpperChars)
LowerSet == Range(LowerChars)
DigitSet == Range(DigitChars)

ToLowerMap == [c \in UpperSet |-> LowerChars[CHOOSE i \in 1..26 : UpperChars[i] = c]]
ToUpperMap == [c \in LowerSet |-> UpperChars[CHOOSE i \in 1..26 : LowerChars[i] = c]]

LowerChar(c) == IF c \in UpperSet THEN ToLowerMap[c] ELSE c
UpperChar(c) == IF c \in LowerSet THEN ToUpperMap[c] ELSE c
IsLetter(c) == c \in UpperSet \/ c \in LowerSet

\* str.lower()
Lower(s) == <<>> \o [i \in 1..Len(s) |-> LowerChar(s[i])]

\* str.title(): a letter is upper-cased when it starts the string or follows
\* a character that is not a letter, and lower-cased otherwise.
Title(s) ==
    [i \in 1..Len(s) |->
        IF i = 1 \/ ~IsLetter(s[i-1]) THEN UpperChar(s[i]) ELSE LowerChar(s[i])]

\* A string-valued slot holds a sequence of characters, or one of two
\* markers: None / JSON null (NullV), or a key missing from a dict (Absent).
Absent == <<"<absent>">>
NullV  == <<"<null>">>
IsStr(x) == x # Absent /\ x # NullV

----------------------------------------------------------------------------
(* difflib.SequenceMatcher(None, a, b).ratio()                              *)
(* (no junk; the autojunk heuristic needs len(b) >= 200 and never fires)   *)

SetMax(S) == CHOOSE x \in S : \A y \in S : y <= x
SetMin(S) == CHOOSE x \in S : \A y \in S : x <= y
Min2(x, y) == IF x <= y THEN x ELSE y

\* The length of the longest common run of a[i..ahi] and b[j..bhi] that
\* starts at i in a and at j in b: the offset of the first difference.
CommonLen(a, b, i, j, ahi, bhi) ==
    LET m == Min2(ahi - i + 1, bhi - j + 1)
    IN  SetMin({m} \cup {d \in 0..(m - 1) : a[i + d] # b[j + d]})

\* The common runs of a[alo..ahi] and b[blo..bhi]: <<i, j, length>> for
\* every pair of positions holding the same character.
CommonRuns(a, b, alo, ahi, blo, bhi) ==
    {<<p[1], p[2], CommonLen(a, b, p[1], p[2], ahi, bhi)>> :
        p \in {q \in (alo..ahi) \X (blo..bhi) : a[q[1]] = b[q[2]]}}

\* The longest run; of those the one starting earliest in a; of those the
\* one starting earliest in b.
LongestRun(K, alo, blo) ==
    IF K = {} THEN <<alo, blo, 0>>
    ELSE LET best == SetMax({x[3] : x \in K})
             bi == SetMin({x[1] : x \in {y \in K : y[3] = best}})
             bj == SetMin({x[2] : x \in {y \in K : y[3] = best /\ y[1] = bi}})
         IN  <<bi, bj, best>>

\* find_longest_match over a[alo..ahi], b[blo..bhi] (1-based, inclusive):
\* <<i, j, size>> of the longest common block.
find_longest_match(a, b, alo, ahi, blo, bhi) ==
    LongestRun(CommonRuns(a, b, alo, ahi, blo, bhi), alo, blo)

\* Sum of the sizes of get_matching_blocks(): the longest block m, then the
\* same to its left and to its right.
RECURSIVE matching_size(_, _, _, _, _, _)
RECURSIVE BlockAndRest(_, _, _, _, _, _, _)
BlockAndRest(m, a, b, alo, ahi, blo, bhi) ==
    IF m[3] = 0 THEN 0
    ELSE m[3]
         + matching_size(a, b, alo, m[1] - 1, blo, m[2] - 1)
         + matching_size(a, b, m[1] + m[3], ahi, m[2] + m[3], bhi)
matching_size(a, b, alo, ahi, blo, bhi) ==
    IF alo > ahi \/ blo > bhi THEN 0
    ELSE BlockAndRest(find_longest_match(a, b, alo, ahi, blo, bhi),
                      a, b, alo, ahi, blo, bhi)

\* ratio() = 2.0 * matches / (len(a) + len(b)), and 1.0 when both are empty.
\* Kept exact as the fraction <<numerator, denominator>>.
ratio(a, b) ==
    IF Len(a) + Len(b) = 0 THEN <<1, 1>>
    ELSE <<2 * matching_size(a, b, 1, Len(a), 1, Len(b)), Len(a) + Len(b)>>

\* _fuzzy_score(a, b)
_fuzzy_score(a, b) == ratio(Lower(a), Lower(b))

\* Comparison of a score with a threshold given in hundredths.  The float
\* quotient 2.0*M/T is the double nearest to the rational 2M/T and the
\* literals 0.8 and 0.72 are the doubles nearest to 4/5 and 18/25, so for
\* these string lengths the float comparison is the rational comparison.
ScoreGT(r, pct) == 100 * r[1] > pct * r[2]
ScoreGE(r, pct) == 100 * r[1] >= pct * r[2]
ScoreEQ(r, pct) == 100 * r[1] = pct * r[2]

FUZZY_THRESHOLD_PCT == 72
MERGE_THRESHOLD_PCT == 80


----------------------------------------------------------------------------
(* DRUG_DATABASE and ALIAS_TO_CANONICAL                                    *)

\* An excerpt of DRUG_DATABASE, entries in source order: <<canonical key,
\* aliases>>.  (paracetamol, ibuprofen, aspirin, amoxicillin-clavulanate,
\* cimetidine, prednisolone, prednisone, vitamin d, vitamin b12)
DRUG_DATABASE == <<
    <<<<"p","a","r","a","c","e","t","a","m","o","l">>,
      <<<<"p","a","r","a","c","e","t","a","m","o","l">>,
        <<"p","a","r","a","c","e","t","a","m","o","i">>,
        <<"p","a","r","c","e","t","a","m","o","l">>,
        <<"p","a","r","a","c","e","t","a","m","o">>>>>>,
    <<<<"i","b","u","p","r","o","f","e","n">>,
      <<<<"i","b","u","p","r","o","f","e","n">>,
        <<"l","b","u","p","r","o","f","e","n">>,
        <<"i","b","u","p","r","0","f","e","n">>,
        <<"b","r","u","f","e","n">>,
        <<"a","d","v","i","l">>>>>>,
    <<<<"a","s","p","i","r","i","n">>,
      <<<<"a","s","p","i","r","i","n">>,
        <<"a","s","p","r","i","n">>,
        <<"e","c","o","s","p","r","i","n">>,
        <<"d","i","s","p","r","i","n">>>>>>,
    <<<<"a","m","o","x","i","c","i","l","l","i","n","-","c","l","a","v","u","l","a","n","a","t","e">>,
      <<<<"a","m","o","x","i","c","l","a","v">>,
        <<"a","u","g","m","e","n","t","i","n">>,
        <<"c","l","a","v","a","m","o","x">>>>>>,
    <<<<"c","i","m","e","t","i","d","i","n","e">>,
      <<<<"c","i","m","e","t","i","d","i","n","e">>,
        <<"c","i","n","a","t","i","d","i","s","e">>,
        <<"c","i","m","a","t","i","d","i","n","e">>,
        <<"c","i","m","e","t","i","d","i","s","e">>,
        <<"t","a","g","a","m","e","t">>>>>>,
    <<<<"p","r","e","d","n","i","s","o","l","o","n","e">>,
      <<<<"p","r","e","d","n","i","s","o","l","o","n","e">>,
        <<"p","r","e","d","n","i","s","0","l","o","n","e">>>>>>,
    <<<<"p","r","e","d","n","i","s","o","n","e">>,
      <<<<"p","r","e","d","n","i","s","o","n","e">>>>>>,
    <<<<"v","i","t","a","m","i","n"," ","d">>,
      <<<<"v","i","t","a","m","i","n"," ","d">>,
        <<"v","i","t","a","m","i","n"," ","d","3">>,
        <<"c","h","o","l","e","c","a","l","c","i","f","e","r","o","l">>>>>>,
    <<<<"v","i","t","a","m","i","n"," ","b","1","2">>,
      <<<<"v","i","t","a","m","i","n"," ","b","1","2">>,
        <<"c","y","a","n","o","c","o","b","a","l","a","m","i","n">>,
        <<"m","e","t","h","y","l","c","o","b","a","l","a","m","i","n">>>>>>
>>

\* A dict as the sequence of its <<key, value>> items in insertion order:
\* d[key] = value keeps the position of an existing key and replaces its value.
DictHas(d, key) == \E i \in DOMAIN d : d[i][1] = key
DictGet(d, key) == d[CHOOSE i \in DOMAIN d : d[i][1] = key][2]
DictSet(d, key, value) ==
    IF DictHas(d, key)
    THEN [i \in DOMAIN d |-> IF d[i][1] = key THEN <<key, value>> ELSE d[i]]
    ELSE Append(d, <<key, value>>)

\* for canonical, aliases in DRUG_DATABASE.items():
\*     for alias in aliases: ALIAS_TO_CANONICAL[alias.lower()] = canonical.title()
RECURSIVE BuildAliasIndex(_, _, _)
BuildAliasIndex(d, e, a) ==
    IF e > Len(DRUG_DATABASE) THEN d
    ELSE IF a > Len(DRUG_DATABASE[e][2]) THEN BuildAliasIndex(d, e + 1, 1)
    ELSE BuildAliasIndex(
            DictSet(d, Lower(DRUG_DATABASE[e][2][a]), Title(DRUG_DATABASE[e][1])),
            e, a + 1)

ALIAS_TO_CANONICAL == BuildAliasIndex(<<>>, 1, 1)

----------------------------------------------------------------------------
(* _find_drug_fuzzy                                                        *)

WhitespaceSet == {" ", "\t", "\n", "\r", "\f"}

\* str.strip(): from the first to the last character that is not whitespace
Strip(s) ==
    LET inked == {i \in 1..Len(s) : s[i] \notin WhitespaceSet}
    IN  IF inked = {} THEN <<>> ELSE SubSeq(s, SetMin(inked), SetMax(inked))

\* score a > score b, both exact fractions
ScoreGreater(ra, rb) == ra[1] * rb[2] > rb[1] * ra[2]

\* The number of characters a and b share, counted with multiplicity: no
\* alignment of a and b matches more (difflib's quick_ratio bound).
SharedChars(a, b) ==
    Cardinality({i \in 1..Len(a) :
        Cardinality({j \in 1..i : a[j] = a[i]}) <= Cardinality({j \in 1..Len(b) : b[j] = a[i]})})

\* The score of a and b cannot reach FUZZY_THRESHOLD when their lengths or
\* their shared characters are too few.
CanReachThreshold(a, b) ==
    /\ ScoreGE(<<2 * Min2(Len(a), Len(b)), Len(a) + Len(b)>>, FUZZY_THRESHOLD_PCT)
    /\ ScoreGE(<<2 * SharedChars(a, b), Len(a) + Len(b)>>, FUZZY_THRESHOLD_PCT)

\* The scores of the aliases against the token: <<position in the dict,
\* score>>.  The caller uses the best score only when it reaches
\* FUZZY_THRESHOLD, so the aliases that cannot reach it are not scored.
AliasScores(index, token_l) ==
    {<<k, _fuzzy_score(token_l, index[k][1])>> :
        k \in {n \in 1..Len(index) : CanReachThreshold(token_l, index[n][1])}}

\* The loop over ALIAS_TO_CANONICAL.items() keeps <<best_score, best_name>>
\* and replaces them only on a strictly higher score, starting from
\* <<0.0, None>>: it ends on the first alias, in dict order, with the
\* highest score.
FirstBest(index, scored) ==
    LET top == {x \in scored : \A y \in scored : ~ScoreGreater(y[2], x[2])}
        first == CHOOSE x \in top : \A y \in top : x[1] <= y[1]
    IN  IF scored = {} \/ first[2][1] = 0 THEN <<(<<0, 1>>), NullV>>
        ELSE <<first[2], index[first[1]][2]>>
BestAlias(index, token_l) == FirstBest(index, AliasScores(index, token_l))

\* A variant: the threshold compared with > instead of >=.
AcceptBest_gt(best) == IF ScoreGT(best[1], FUZZY_THRESHOLD_PCT) THEN best[2] ELSE NullV

\* if best_score >= FUZZY_THRESHOLD: return best_name, else None
AcceptBest(best) == IF ScoreGE(best[1], FUZZY_THRESHOLD_PCT) THEN best[2] ELSE NullV

\* The exact lookup of the stripped, lower-cased token, then the scan
ResolveToken(index, token_l) ==
    IF DictHas(index, token_l) THEN DictGet(index, token_l)
    ELSE AcceptBest(BestAlias(index, token_l))

\* _find_drug_fuzzy(token): the canonical name, or None (NullV).  index is
\* the module's ALIAS_TO_CANONICAL as the call finds it.
_find_drug_fuzzy(index, token) == ResolveToken(index, Strip(Lower(token)))

----------------------------------------------------------------------------
(* Python re: a backtracking matcher                                       *)
(*                                                                         *)
(* A pattern is a tree; RxM lists, in the order Python's backtracking      *)
(* tries them, the ways the pattern matches at a position, each with the   *)
(* position after the match and the spans of the capture groups.  The      *)
(* first element is the match re.match returns.                            *)

\* Two characters outside ASCII that the patterns name (SANY reads ASCII
\* only): U+2013 EN DASH and U+00B5 MICRO SIGN, each one character.
EnDash == "<en-dash>"
Micro  == "<micro>"

WordSet == UpperSet \cup LowerSet \cup DigitSet \cup {"_"}

Ch(S)         == [k |-> "set", s |-> S]
NCh(S)        == [k |-> "nset", s |-> S]
WB            == [k |-> "wb"]
LookBehind(S) == [k |-> "lb", s |-> S, neg |-> FALSE]
NotBehind(S)  == [k |-> "lb", s |-> S, neg |-> TRUE]
LookAhead(S)  == [k |-> "la", s |-> S, neg |-> FALSE]
NotAhead(S)   == [k |-> "la", s |-> S, neg |-> TRUE]
Cat(items)    == [k |-> "seq", items |-> items]
Alt(items)    == [k |-> "alt", items |-> items]
Rep(item, lo, hi) == [k |-> "rep", item |-> item, min |-> lo, max |-> hi]
Grp(n, item)  == [k |-> "grp", n |-> n, item |-> item]

Inf == -1
Lit(chars) == [k |-> "lit", s |-> chars]
Opt(item)  == Rep(item, 0, 1)
Plus(item) == Rep(item, 1, Inf)
Star(item) == Rep(item, 0, Inf)
SpPlus == Plus(Ch(WhitespaceSet))      \* \s+
SpStar == Star(Ch(WhitespaceSet))      \* \s*
Digits == Plus(Ch(DigitSet))           \* \d+

NoCaps == <<(<<0, 0>>), (<<0, 0>>)>>

\* re.IGNORECASE (ic): a character matches a set when either of its cases
\* is in it.
CharIn(c, S, ic) == c \in S \/ (ic /\ (LowerChar(c) \in S \/ UpperChar(c) \in S))

IsWordAt(t, pos) == pos >= 1 /\ pos <= Len(t) /\ t[pos] \in WordSet

RECURSIVE RxM(_, _, _, _, _)
RECURSIVE RxSeq(_, _, _, _, _, _)
RECURSIVE RxSeqCont(_, _, _, _, _, _)
RECURSIVE RxAlt(_, _, _, _, _, _)
RECURSIVE RxRep(_, _, _, _, _, _)
RECURSIVE RxRepCont(_, _, _, _, _, _)

RxOne(pos, caps) == <<[pos |-> pos, caps |-> caps]>>

\* The number of characters from pos on that are in (inset) or out of the set.
ClassRun(t, pos, S, inset, ic) ==
    LET m == Len(t) - pos + 1
    IN  SetMin({m} \cup {d \in 0..(m - 1) : CharIn(t[pos + d], S, ic) # inset})

RxM(p, t, pos, caps, ic) ==
    CASE p.k = "lit" ->
            IF /\ pos + Len(p.s) - 1 <= Len(t)
               /\ \A j \in 1..Len(p.s) : CharIn(t[pos + j - 1], {p.s[j]}, ic)
            THEN RxOne(pos + Len(p.s), caps) ELSE <<>>
      [] p.k = "set" ->
            IF pos <= Len(t) /\ CharIn(t[pos], p.s, ic) THEN RxOne(pos + 1, caps) ELSE <<>>
      [] p.k = "nset" ->
            IF pos <= Len(t) /\ ~CharIn(t[pos], p.s, ic) THEN RxOne(pos + 1, caps) ELSE <<>>
      [] p.k = "wb" ->
            IF IsWordAt(t, pos - 1) # IsWordAt(t, pos) THEN RxOne(pos, caps) ELSE <<>>
      [] p.k = "lb" ->
            IF (pos > 1 /\ CharIn(t[pos - 1], p.s, ic)) # p.neg THEN RxOne(pos, caps) ELSE <<>>
      [] p.k = "la" ->
            IF (pos <= Len(t) /\ CharIn(t[pos], p.s, ic)) # p.neg THEN RxOne(pos, caps) ELSE <<>>
      [] p.k = "seq" -> RxSeq(p.items, 1, t, pos, caps, ic)
      [] p.k = "alt" -> RxAlt(p.items, 1, t, pos, caps, ic)
      [] p.k = "rep" ->
            IF p.item.k \in {"set", "nset"}
            THEN \* a repeated character class: the longest run first, then
                 \* one character less at a time, down to the minimum
                 LET run == ClassRun(t, pos, p.item.s, p.item.k = "set", ic)
                     most == IF p.max = Inf \/ run <= p.max THEN run ELSE p.max
                 IN  [j \in 1..(most - p.min + 1) |->
                        [pos |-> pos + most - j + 1, caps |-> caps]]
            ELSE RxRep(p, 0, t, pos, caps, ic)
      [] p.k = "grp" ->
            LET rs == RxM(p.item, t, pos, caps, ic)
            IN  [j \in 1..Len(rs) |->
                    [pos |-> rs[j].pos,
                     caps |-> [rs[j].caps EXCEPT ![p.n] = <<pos, rs[j].pos>>]]]

\* items[i..] in sequence
RxSeq(items, i, t, pos, caps, ic) ==
    IF i > Len(items) THEN RxOne(pos, caps)
    ELSE RxSeqCont(items, i, t, RxM(items[i], t, pos, caps, ic), 1, ic)

RxSeqCont(items, i, t, rs, j, ic) ==
    IF j > Len(rs) THEN <<>>
    ELSE RxSeq(items, i + 1, t, rs[j].pos, rs[j].caps, ic)
         \o RxSeqCont(items, i, t, rs, j + 1, ic)

\* alternatives, the leftmost first
RxAlt(items, i, t, pos, caps, ic) ==
    IF i > Len(items) THEN <<>>
    ELSE RxM(items[i], t, pos, caps, ic) \o RxAlt(items, i + 1, t, pos, caps, ic)

\* greedy repetition: one more item first, stopping here last
RxRep(p, count, t, pos, caps, ic) ==
    LET more == IF p.max = Inf \/ count < p.max
                THEN RxRepCont(p, count, t,
                        SelectSeq(RxM(p.item, t, pos, caps, ic), LAMBDA r : r.pos > pos),
                        1, ic)
                ELSE <<>>
        stop == IF count >= p.min THEN RxOne(pos, caps) ELSE <<>>
    IN  more \o stop

RxRepCont(p, count, t, rs, j, ic) ==
    IF j > Len(rs) THEN <<>>
    ELSE RxRep(p, count + 1, t, rs[j].pos, rs[j].caps, ic)
         \o RxRepCont(p, count, t, rs, j + 1, ic)

NoMatch == [found |-> FALSE, start |-> 0, end |-> 0, caps |-> NoCaps]

\* re.search: the match at the leftmost start position that has one; all
\* holds <<start, ways of matching there>> for every start position.
LeftmostMatch(all) ==
    LET hits == {x \in all : x[2] # <<>>}
        h == CHOOSE x \in hits : \A y \in hits : x[1] <= y[1]
    IN  IF hits = {} THEN NoMatch
        ELSE [found |-> TRUE, start |-> h[1], end |-> h[2][1].pos, caps |-> h[2][1].caps]
re_search(p, t, ic) ==
    LeftmostMatch({<<q, RxM(p, t, q, NoCaps, ic)>> : q \in 1..(Len(t) + 1)})

\* re.fullmatch: some way of matching from the start reaches the end.
re_fullmatch(p, t, ic) ==
    LET rs == RxM(p, t, 1, NoCaps, ic)
    IN  \E j \in 1..Len(rs) : rs[j].pos = Len(t) + 1

\* m.group(n): the text of a capture group (n = 0: the whole match)
Group(t, m, n) ==
    IF n = 0 THEN SubSeq(t, m.start, m.end - 1)
    ELSE SubSeq(t, m.caps[n][1], m.caps[n][2] - 1)

----------------------------------------------------------------------------
(* FREQUENCY_MAP, ROUTE_MAP, DOSAGE_RE, DURATION_RE and their extractors   *)

\* str.replace(old, new): the occurrences of old, left to right, not
\* overlapping (old is not empty).
StartsWithAt(s, i, old) ==
    /\ i + Len(old) - 1 <= Len(s)
    /\ \A j \in 1..Len(old) : s[i + j - 1] = old[j]
RECURSIVE ReplaceFrom(_, _, _, _)
ReplaceFrom(s, i, old, new) ==
    IF i > Len(s) THEN <<>>
    ELSE IF StartsWithAt(s, i, old) THEN new \o ReplaceFrom(s, i + Len(old), old, new)
    ELSE <<s[i]>> \o ReplaceFrom(s, i + 1, old, new)
StrReplace(s, old, new) ==
    IF Len(old) = 1 /\ Len(new) = 1
    THEN [i \in 1..Len(s) |-> IF s[i] = old[1] THEN new[1] ELSE s[i]]
    ELSE ReplaceFrom(s, 1, old, new)

\* old in s
Contains(s, old) == \E i \in 1..(Len(s) - Len(old) + 1) : StartsWithAt(s, i, old)

\* \b d1 \s* [-<en-dash>] \s* d2 \s* [-<en-dash>] \s* d3 \b
DashSet == {"-", EnDash}
NumericDosing(d1, d2, d3) ==
    Cat(<<WB, Ch({d1}), SpStar, Ch(DashSet), SpStar, Ch({d2}), SpStar, Ch(DashSet),
          SpStar, Ch({d3}), WB>>)

\* (a\s+)?  as group 1
OptionalA == Opt(Grp(1, Cat(<<Ch({"a"}), SpPlus>>)))

FREQUENCY_MAP == <<
    <<Cat(<<WB, Lit(<<"q","i","d">>), WB>>),
      <<"F","o","u","r"," ","t","i","m","e","s"," ","d","a","i","l","y">>>>,
    <<Alt(<<Cat(<<WB, Lit(<<"t","d","s">>), WB>>), Cat(<<WB, Lit(<<"t","i","d">>), WB>>)>>),
      <<"T","h","r","e","e"," ","t","i","m","e","s"," ","d","a","i","l","y">>>>,
    <<Alt(<<Cat(<<WB, Lit(<<"b","d">>), WB>>), Cat(<<WB, Lit(<<"b","i","d">>), WB>>)>>),
      <<"T","w","i","c","e"," ","d","a","i","l","y">>>>,
    <<Cat(<<WB, Lit(<<"o","d">>), WB>>),
      <<"O","n","c","e"," ","d","a","i","l","y">>>>,
    <<Alt(<<Cat(<<WB, Lit(<<"h","s">>), WB>>), Cat(<<WB, Lit(<<"b","e","d","t","i","m","e">>), WB>>)>>),
      <<"A","t"," ","b","e","d","t","i","m","e">>>>,
    <<Alt(<<Cat(<<WB, Lit(<<"s","o","s">>), WB>>), Cat(<<WB, Lit(<<"p","r","n">>), WB>>), Cat(<<WB, Lit(<<"a","s">>), SpPlus, Lit(<<"n","e","e","d","e","d">>), WB>>)>>),
      <<"A","s"," ","n","e","e","d","e","d">>>>,
    <<Cat(<<WB, Lit(<<"s","t","a","t">>), WB>>),
      <<"I","m","m","e","d","i","a","t","e","l","y">>>>,
    <<NumericDosing("1", "1", "1"),
      <<"T","h","r","e","e"," ","t","i","m","e","s"," ","d","a","i","l","y">>>>,
    <<NumericDosing("1", "0", "1"),
      <<"T","w","i","c","e"," ","d","a","i","l","y"," ","(","m","o","r","n","i","n","g"," ","+"," ","n","i","g","h","t",")">>>>,
    <<NumericDosing("1", "1", "0"),
      <<"T","w","i","c","e"," ","d","a","i","l","y"," ","(","m","o","r","n","i","n","g"," ","+"," ","a","f","t","e","r","n","o","o","n",")">>>>,
    <<NumericDosing("0", "0", "1"),
      <<"O","n","c","e"," ","d","a","i","l","y"," ","(","a","t"," ","n","i","g","h","t",")">>>>,
    <<NumericDosing("1", "0", "0"),
      <<"O","n","c","e"," ","d","a","i","l","y"," ","(","m","o","r","n","i","n","g",")">>>>,
    <<Cat(<<Lit(<<"f","o","u","r">>), SpPlus, Lit(<<"t","i","m","e">>), Opt(Ch({"s"})), SpPlus, OptionalA, Lit(<<"d","a","y">>)>>),
      <<"F","o","u","r"," ","t","i","m","e","s"," ","d","a","i","l","y">>>>,
    <<Cat(<<Lit(<<"t","h","r","e","e">>), SpPlus, Lit(<<"t","i","m","e">>), Opt(Ch({"s"})), SpPlus, OptionalA, Lit(<<"d","a","y">>)>>),
      <<"T","h","r","e","e"," ","t","i","m","e","s"," ","d","a","i","l","y">>>>,
    <<Alt(<<Cat(<<Lit(<<"t","w","i","c","e">>), SpPlus, OptionalA, Lit(<<"d","a","y">>)>>), Cat(<<Lit(<<"t","w","o">>), SpPlus, Lit(<<"t","i","m","e","s">>)>>)>>),
      <<"T","w","i","c","e"," ","d","a","i","l","y">>>>,
    <<Alt(<<Cat(<<Lit(<<"o","n","c","e">>), SpPlus, OptionalA, Lit(<<"d","a","y">>)>>), Cat(<<Lit(<<"o","n","c","e">>), SpPlus, Lit(<<"d","a","i","l","y">>)>>)>>),
      <<"O","n","c","e"," ","d","a","i","l","y">>>>,
    <<Cat(<<Lit(<<"e","v","e","r","y">>), SpPlus, Grp(1, Digits), SpPlus, Lit(<<"h","o","u","r">>), Opt(Ch({"s"}))>>),
      <<"E","v","e","r","y"," ","{","1","}"," ","h","o","u","r","s">>>>
>>

ROUTE_MAP == <<
    <<Alt(<<Cat(<<WB, Lit(<<"o","r","a","l">>), Opt(Lit(<<"l","y">>)), WB>>), Cat(<<WB, Lit(<<"p","o">>), WB>>), Cat(<<WB, Lit(<<"b","y">>), SpPlus, Lit(<<"m","o","u","t","h">>), WB>>)>>),
      <<"O","r","a","l">>>>,
    <<Alt(<<Cat(<<WB, Lit(<<"i","v">>), WB>>), Cat(<<WB, Lit(<<"i","n","t","r","a","v","e","n","o","u","s">>)>>)>>),
      <<"I","n","t","r","a","v","e","n","o","u","s">>>>,
    <<Alt(<<Cat(<<WB, Lit(<<"i","m">>), WB>>), Cat(<<WB, Lit(<<"i","n","t","r","a","m","u","s","c","u","l","a","r">>)>>)>>),
      <<"I","n","t","r","a","m","u","s","c","u","l","a","r">>>>,
    <<Alt(<<Cat(<<WB, Lit(<<"s","c">>), WB>>), Cat(<<WB, Lit(<<"s","u","b","c","u","t","a","n","e","o","u","s">>)>>)>>),
      <<"S","u","b","c","u","t","a","n","e","o","u","s">>>>,
    <<Alt(<<Cat(<<WB, Lit(<<"i","n","h","a","l","e">>), Opt(Ch({"r"})), WB>>), Cat(<<WB, Lit(<<"i","n","h","a","l","a","t","i","o","n">>), WB>>), Cat(<<WB, Lit(<<"p","u","f","f">>), Opt(Ch({"s"})), WB>>)>>),
      <<"I","n","h","a","l","a","t","i","o","n">>>>,
    <<Alt(<<Cat(<<WB, Lit(<<"t","o","p","i","c","a","l">>), WB>>), Cat(<<WB, Lit(<<"c","r","e","a","m">>), WB>>), Cat(<<WB, Lit(<<"o","i","n","t","m","e","n","t">>), WB>>), Cat(<<WB, Lit(<<"g","e","l">>), WB>>)>>),
      <<"T","o","p","i","c","a","l">>>>,
    <<Alt(<<Cat(<<WB, Lit(<<"p","a","t","c","h">>), WB>>), Cat(<<WB, Lit(<<"t","r","a","n","s","d","e","r","m","a","l">>), WB>>)>>),
      <<"T","r","a","n","s","d","e","r","m","a","l">>>>,
    <<Alt(<<Cat(<<WB, Lit(<<"i","n","j","e","c","t","i","o","n">>), WB>>), Cat(<<WB, Lit(<<"i","n","j","e","c","t","a","b","l","e">>), WB>>), Cat(<<WB, Lit(<<"s","i">>), WB>>)>>),
      <<"I","n","j","e","c","t","i","o","n">>>>,
    <<Alt(<<Cat(<<WB, Lit(<<"s","u","b","l","i","n","g","u","a","l">>), WB>>), Cat(<<WB, Lit(<<"s","l">>), WB>>)>>),
      <<"S","u","b","l","i","n","g","u","a","l">>>>,
    <<Alt(<<Cat(<<WB, Lit(<<"d","r","o","p">>), Opt(Ch({"s"})), WB>>), Cat(<<WB, Lit(<<"e","y","e">>), SpPlus, Lit(<<"d","r","o","p">>), WB>>), Cat(<<WB, Lit(<<"e","a","r">>), SpPlus, Lit(<<"d","r","o","p">>), WB>>)>>),
      <<"D","r","o","p","s">>>>,
    <<Alt(<<Cat(<<WB, Lit(<<"t","a","b">>), Opt(Lit(<<"l","e","t">>)), Opt(Ch({"s"})), WB>>), Cat(<<WB, Lit(<<"c","a","p","s","u","l">>), Opt(Ch({"e"})), Opt(Ch({"s"})), WB>>), Cat(<<WB, Lit(<<"c","a","p">>), WB>>)>>),
      <<"O","r","a","l">>>>
>>


\* (\d+(?:\.\d+)?)\s*(mg|mcg|<micro>g|g\b|ml|l\b|iu|units?|u\b|tabs?|tablets?|
\*                    caps?|capsules?|puffs?|drops?|mmol), IGNORECASE
DOSAGE_RE ==
    Cat(<<Grp(1, Cat(<<Digits, Opt(Cat(<<Ch({"."}), Digits>>))>>)),
          SpStar,
          Grp(2, Alt(<<
              Lit(<<"m","g">>),
              Lit(<<"m","c","g">>),
              Cat(<<Ch({Micro}), Ch({"g"})>>),
              Cat(<<Ch({"g"}), WB>>),
              Lit(<<"m","l">>),
              Cat(<<Ch({"l"}), WB>>),
              Lit(<<"i","u">>),
              Cat(<<Lit(<<"u","n","i","t">>), Opt(Ch({"s"}))>>),
              Cat(<<Ch({"u"}), WB>>),
              Cat(<<Lit(<<"t","a","b">>), Opt(Ch({"s"}))>>),
              Cat(<<Lit(<<"t","a","b","l","e","t">>), Opt(Ch({"s"}))>>),
              Cat(<<Lit(<<"c","a","p">>), Opt(Ch({"s"}))>>),
              Cat(<<Lit(<<"c","a","p","s","u","l","e">>), Opt(Ch({"s"}))>>),
              Cat(<<Lit(<<"p","u","f","f">>), Opt(Ch({"s"}))>>),
              Cat(<<Lit(<<"d","r","o","p">>), Opt(Ch({"s"}))>>),
              Lit(<<"m","m","o","l">>)>>))>>)

\* (?:for\s+)?(\d+)\s*(days?|weeks?|months?), IGNORECASE
DURATION_RE ==
    Cat(<<Opt(Cat(<<Lit(<<"f","o","r">>), SpPlus>>)),
          Grp(1, Digits),
          SpStar,
          Grp(2, Alt(<<Cat(<<Lit(<<"d","a","y">>), Opt(Ch({"s"}))>>), Cat(<<Lit(<<"w","e","e","k">>), Opt(Ch({"s"}))>>), Cat(<<Lit(<<"m","o","n","t","h">>), Opt(Ch({"s"}))>>)>>))>>)

Placeholder1 == <<"{","1","}">>

\* _extract_frequency(text): the label of the first pattern of FREQUENCY_MAP
\* (in table order) found anywhere in the text, '' when none is.
\* label.replace('{1}', m.group(1)) if '{1}' in label else label
FrequencyLabel(m, label, text) ==
    IF Contains(label, Placeholder1)
    THEN StrReplace(label, Placeholder1, Group(text, m, 1))
    ELSE label
RECURSIVE FrequencyFrom(_, _, _)
RECURSIVE FrequencyAt(_, _, _, _)
FrequencyAt(m, map, text, k) ==
    IF m.found THEN FrequencyLabel(m, map[k][2], text) ELSE FrequencyFrom(map, text, k + 1)
FrequencyFrom(map, text, k) ==
    IF k > Len(map) THEN <<>>
    ELSE FrequencyAt(re_search(map[k][1], text, TRUE), map, text, k)
_extract_frequency(text) == FrequencyFrom(FREQUENCY_MAP, text, 1)

\* _extract_route(text)
RECURSIVE RouteFrom(_, _, _)
RouteFrom(map, text, k) ==
    IF k > Len(map) THEN <<>>
    ELSE IF re_search(map[k][1], text, TRUE).found THEN map[k][2]
    ELSE RouteFrom(map, text, k + 1)
_extract_route(text) == RouteFrom(ROUTE_MAP, text, 1)

\* _extract_dosage(text): f"{m.group(1)} {m.group(2).lower()}"
\* A variant: the number and the unit as written, without the space.
DosageOf_aswritten(m, text) ==
    IF m.found THEN Group(text, m, 1) \o Lower(Group(text, m, 2)) ELSE <<>>

DosageOf(m, text) ==
    IF m.found THEN Group(text, m, 1) \o <<" ">> \o Lower(Group(text, m, 2)) ELSE <<>>
_extract_dosage(text) == DosageOf(re_search(DOSAGE_RE, text, TRUE), text)

\* _extract_duration(text): f"For {n} {unit}"
DurationOf(m, text) ==
    IF m.found
    THEN <<"F","o","r"," ">> \o Group(text, m, 1) \o <<" ">> \o Group(text, m, 2)
    ELSE <<>>
_extract_duration(text) == DurationOf(re_search(DURATION_RE, text, TRUE), text)

----------------------------------------------------------------------------
(* JSON-like payloads                                                      *)

\* dict.get(key, "")
GetStr(m, key) == IF m[key] = Absent THEN <<>> ELSE m[key]

\* A medication entry: a dict (obj) with the keys of the prompt contract, or
\* a list element that is not a dict at all (obj = FALSE).
Med(name, dosage, frequency, duration, route, notes) ==
    [obj |-> TRUE, name |-> name, dosage |-> dosage, frequency |-> frequency,
     duration |-> duration, route |-> route, notes |-> notes]
NotADict == [obj |-> FALSE, name |-> Absent, dosage |-> Absent, frequency |-> Absent,
             duration |-> Absent, route |-> Absent, notes |-> Absent]

\* The value of a list-valued key: a list, JSON null, a string (whose
\* elements, the characters, are not dicts), or the key is missing.
JList(v)  == [t |-> "list", v |-> v]
JNull     == [t |-> "null", v |-> <<>>]
JAbsent   == [t |-> "absent", v |-> <<>>]
JString(n) == [t |-> "str", v |-> [i \in 1..n |-> NotADict]]

\* notes of a fuzzy candidate (never inspected character by character)
FUZZY_NOTES == <<"Extracted via fuzzy OCR matching">>

nCimetidine == <<"C","i","m","e","t","i","d","i","n","e">>
nCinatidise == <<"C","i","n","a","t","i","d","i","s","e">>
nPrednisone == <<"P","r","e","d","n","i","s","o","n","e">>
nPrednisolone == <<"P","r","e","d","n","i","s","o","l","o","n","e">>
nVitaminD == <<"V","i","t","a","m","i","n"," ","D">>
nVitaminB12 == <<"V","i","t","a","m","i","n"," ","B","1","2">>

----------------------------------------------------------------------------
(* extract_medications_fuzzy                                               *)

\* The k-th smallest element of a set of numbers
KthSmallest(S, k) == CHOOSE p \in S : Cardinality({q \in S : q < p}) = k - 1

\* str.split(sep) for a one-character separator: the pieces between the
\* separators, empty pieces included.
SplitOn(s, sep) ==
    LET seps == {i \in 1..Len(s) : s[i] = sep}
        n == Cardinality(seps)
        cut(k) == IF k = 0 THEN 0 ELSE IF k = n + 1 THEN Len(s) + 1 ELSE KthSmallest(seps, k)
    IN  [k \in 1..(n + 1) |-> SubSeq(s, cut(k - 1) + 1, cut(k) - 1)]

\* str.split(): the maximal runs of non-whitespace characters.
SplitWords(s) ==
    LET starts == {i \in 1..Len(s) :
                      s[i] \notin WhitespaceSet /\ (i = 1 \/ s[i - 1] \in WhitespaceSet)}
        stop(p) == SetMin({q \in p..(Len(s) + 1) : q = Len(s) + 1 \/ s[q] \in WhitespaceSet})
    IN  [k \in 1..Cardinality(starts) |->
            LET p == KthSmallest(starts, k) IN SubSeq(s, p, stop(p) - 1)]

\* ' '.join(parts)
RECURSIVE JoinSpace(_)
JoinSpace(parts) ==
    IF parts = <<>> THEN <<>>
    ELSE IF Len(parts) = 1 THEN parts[1]
    ELSE parts[1] \o <<" ">> \o JoinSpace(Tail(parts))

\* lines = text.replace('\r', '\n').split('\n')
TextLines(text) == SplitOn(StrReplace(text, <<"\r">>, <<"\n">>), "\n")

\* for window_size in [3, 2, 1]
WINDOW_SIZES == <<3, 2, 1>>

\* re.fullmatch(r'[\d\W]+', token): the class [\d\W] holds every character
\* but the letters and the underscore.
DigitsOrPunct == Plus(NCh(UpperSet \cup LowerSet \cup {"_"}))

\* len(token) < 3
MIN_TOKEN_LEN == 3

\* lines.index(line): the first line equal to this one
LineIndex(lines, line) == SetMin({k \in DOMAIN lines : lines[k] = line})

\* context = ' '.join(lines[max(0, line_idx - 1):line_idx + 2])
Context(lines, line_idx) ==
    JoinSpace(SubSeq(lines,
                     IF line_idx - 1 < 1 THEN 1 ELSE line_idx - 1,
                     IF line_idx + 1 > Len(lines) THEN Len(lines) ELSE line_idx + 1))

\* The candidate built at an accepted match.
FuzzyCandidate(canonical, context) ==
    Med(canonical, _extract_dosage(context), _extract_frequency(context),
        _extract_duration(context), _extract_route(context), FUZZY_NOTES)

\* A variant: the seen set is not consulted.
FuzzyAccepts_noseen(canonical, seen) == canonical # NullV

\* if canonical and canonical.lower() not in seen
FuzzyAccepts(canonical, seen) == canonical # NullV /\ Lower(canonical) \notin seen

\* The position of the three nested loops and the two accumulators:
\*   li  the line being scanned (1-based), wi the index into WINDOW_SIZES,
\*   i   the start position within the line (0-based, as range() gives it),
\*   seen, medications.
FuzzyStart == [li |-> 1, wi |-> 1, i |-> 0, seen |-> {}, medications |-> <<>>]

FuzzyDone(lines, st) == st.li > Len(lines)

\* The token under examination, when the scan stands on one.
OnToken(lines, st) ==
    /\ ~FuzzyDone(lines, st)
    /\ st.wi <= Len(WINDOW_SIZES)
    /\ st.i < Len(SplitWords(lines[st.li])) - WINDOW_SIZES[st.wi] + 1
Token(lines, st) ==
    LET words == SplitWords(lines[st.li])
    IN  JoinSpace(SubSeq(words, st.i + 1, st.i + WINDOW_SIZES[st.wi]))
TokenSkipped(token) == re_fullmatch(DigitsOrPunct, token, FALSE) \/ Len(token) < MIN_TOKEN_LEN

\* The scan after a token that resolved to found (NullV: to nothing): an
\* accepted match appends its candidate and breaks out of the loop over the
\* start positions, which goes on with the next window size.
AfterLookup(found, lines, st) ==
    IF FuzzyAccepts(found, st.seen)
    THEN [st EXCEPT
            !.seen = @ \cup {Lower(found)},
            !.medications = Append(@,
                FuzzyCandidate(found, Context(lines, LineIndex(lines, lines[st.li])))),
            !.wi = @ + 1, !.i = 0]
    ELSE [st EXCEPT !.i = @ + 1]

\* The scan after the token tok was formed
AfterToken(index, tok, lines, st) ==
    IF TokenSkipped(tok) THEN [st EXCEPT !.i = @ + 1]
    ELSE AfterLookup(_find_drug_fuzzy(index, tok), lines, st)

\* One step of the scan: leave an exhausted loop, or examine one token.
FuzzyStep(index, lines, st) ==
    IF FuzzyDone(lines, st) THEN st
    ELSE IF st.wi > Len(WINDOW_SIZES) THEN [st EXCEPT !.li = @ + 1, !.wi = 1, !.i = 0]
    ELSE IF ~OnToken(lines, st) THEN [st EXCEPT !.wi = @ + 1, !.i = 0]
    ELSE AfterToken(index, Token(lines, st), lines, st)

RECURSIVE FuzzyRun(_, _, _)
FuzzyRun(index, lines, st) ==
    IF FuzzyDone(lines, st) THEN st ELSE FuzzyRun(index, lines, FuzzyStep(index, lines, st))

\* extract_medications_fuzzy(text)
extract_medications_fuzzy(index, text) ==
    FuzzyRun(index, TextLines(text), FuzzyStart).medications

----------------------------------------------------------------------------
(* normalize_ocr_text                                                      *)

LetterSet == UpperSet \cup LowerSet

\* re.search from position `from` on (lookbehinds still see the text before)
re_search_from(p, t, from, ic) ==
    LeftmostMatch({<<q, RxM(p, t, q, NoCaps, ic)>> : q \in from..(Len(t) + 1)})

\* re.sub(p, repl, t) for a pattern that matches no empty string: the
\* matches left to right, not overlapping, each replaced by repl.
RECURSIVE SubFrom(_, _, _, _)
RECURSIVE SubAfter(_, _, _, _, _)
SubAfter(m, p, repl, t, from) ==
    IF ~m.found THEN SubSeq(t, from, Len(t))
    ELSE SubSeq(t, from, m.start - 1) \o repl \o SubFrom(p, repl, t, m.end)
SubFrom(p, repl, t, from) == SubAfter(re_search_from(p, t, from, FALSE), p, repl, t, from)
re_sub(p, repl, t) == SubFrom(p, repl, t, 1)

\* A variant: char_fixes without the rule for 0 between letters.
CHAR_FIXES_nozero == <<
    <<Cat(<<LookBehind(LetterSet), Ch({"1"}), LookAhead(LetterSet)>>), <<"l">> >>,
    <<Ch({"|"}), <<"l">> >>,
    <<Cat(<<NotBehind(DigitSet), Lit(<<"r","n">>), NotAhead(DigitSet)>>), <<"m">> >>
>>

\* char_fixes, in order: <<pattern, replacement>>
CHAR_FIXES == <<
    <<Cat(<<LookBehind(LetterSet), Ch({"0"}), LookAhead(LetterSet)>>), <<"o">> >>,
    <<Cat(<<LookBehind(LetterSet), Ch({"1"}), LookAhead(LetterSet)>>), <<"l">> >>,
    <<Ch({"|"}), <<"l">> >>,
    <<Cat(<<NotBehind(DigitSet), Lit(<<"r","n">>), NotAhead(DigitSet)>>), <<"m">> >>
>>

\* abbrev_expansions, in dict order: <<pattern \bX\b, expansion>>
ABBREV_EXPANSIONS == <<
    <<Cat(<<WB, Lit(<<"B","D">>), WB>>), <<"T","w","i","c","e"," ","d","a","i","l","y">>>>,
    <<Cat(<<WB, Lit(<<"O","D">>), WB>>), <<"O","n","c","e"," ","d","a","i","l","y">>>>,
    <<Cat(<<WB, Lit(<<"T","D","S">>), WB>>), <<"T","h","r","e","e"," ","t","i","m","e","s"," ","d","a","i","l","y">>>>,
    <<Cat(<<WB, Lit(<<"Q","I","D">>), WB>>), <<"F","o","u","r"," ","t","i","m","e","s"," ","d","a","i","l","y">>>>,
    <<Cat(<<WB, Lit(<<"H","S">>), WB>>), <<"A","t"," ","b","e","d","t","i","m","e">>>>,
    <<Cat(<<WB, Lit(<<"S","O","S">>), WB>>), <<"A","s"," ","n","e","e","d","e","d">>>>,
    <<Cat(<<WB, Lit(<<"P","R","N">>), WB>>), <<"A","s"," ","n","e","e","d","e","d">>>>,
    <<Cat(<<WB, Lit(<<"S","t","a","t">>), WB>>), <<"I","m","m","e","d","i","a","t","e","l","y">>>>
>>

\* The text after the first k character fixes, and the corrections recorded
\* for those that changed it.
FixApplied(prev, new_text, k) ==
    IF new_text # prev.text
    THEN [text |-> new_text,
          corrections |-> Append(prev.corrections,
              [type |-> "ocr_char_fix", rule |-> k,
               corrected |-> CHAR_FIXES[k][2], confidence |-> 75])]
    ELSE prev
NextFix(prev, k) == FixApplied(prev, re_sub(CHAR_FIXES[k][1], CHAR_FIXES[k][2], prev.text), k)
RECURSIVE CharFixed(_, _)
CharFixed(raw_text, k) ==
    IF k = 0 THEN [text |-> raw_text, corrections |-> <<>>]
    ELSE NextFix(CharFixed(raw_text, k - 1), k)

\* The abbreviation records: one per pattern found, the text unchanged.
AbbrevCorrections(text) ==
    LET hit == {k \in 1..Len(ABBREV_EXPANSIONS) :
                   re_search(ABBREV_EXPANSIONS[k][1], text, TRUE).found}
    IN  [j \in 1..Cardinality(hit) |->
            LET k == KthSmallest(hit, j)
            IN  [type |-> "abbrev_expansion", rule |-> k,
                 corrected |-> ABBREV_EXPANSIONS[k][2], confidence |-> 95]]

\* min(0.95, max(0.4, word_count / 50)), in thousandths
CONFIDENCE_MIN == 400
CONFIDENCE_MAX == 950
CONFIDENCE_PER_WORD == 20
SHORT_TEXT_WORDS == 10
\* A variant: max(0.4, word_count / 50), without the upper end.
Confidence_nomax(word_count) ==
    LET c == CONFIDENCE_PER_WORD * word_count
    IN  IF c < CONFIDENCE_MIN THEN CONFIDENCE_MIN ELSE c
Confidence(word_count) ==
    LET c == CONFIDENCE_PER_WORD * word_count
    IN  IF c < CONFIDENCE_MIN THEN CONFIDENCE_MIN
        ELSE IF c > CONFIDENCE_MAX THEN CONFIDENCE_MAX ELSE c

\* Characters of the model that are outside ASCII
NonAsciiSet == {EnDash, Micro}

\* The result for the text after the character fixes
Normalized(fixed, word_count) ==
    [cleaned_text |-> Strip(fixed.text),
     corrections |-> fixed.corrections \o AbbrevCorrections(fixed.text),
     confidence |-> Confidence(word_count),
     flags |-> (IF word_count < SHORT_TEXT_WORDS THEN <<"very_short_text">> ELSE <<>>)
               \o (IF \E i \in 1..Len(fixed.text) : fixed.text[i] \in NonAsciiSet
                   THEN <<"non_ascii_chars">> ELSE <<>>),
     needs_term_review |-> TRUE]
WordCounted(fixed) == Normalized(fixed, Len(SplitWords(fixed.text)))

\* normalize_ocr_text(raw_text)
normalize_ocr_text(raw_text) == WordCounted(CharFixed(raw_text, Len(CHAR_FIXES)))

----------------------------------------------------------------------------
(* _extract_conditions, _extract_allergies                                 *)

CONDITION_KEYWORDS == <<
    <<"h","y","p","e","r","t","e","n","s","i","o","n">>,
    <<"d","i","a","b","e","t","e","s">>,
    <<"a","s","t","h","m","a">>,
    <<"c","o","p","d">>,
    <<"h","y","p","o","t","h","y","r","o","i","d","i","s","m">>,
    <<"h","y","p","e","r","t","h","y","r","o","i","d","i","s","m">>,
    <<"d","e","p","r","e","s","s","i","o","n">>,
    <<"a","n","x","i","e","t","y">>,
    <<"e","p","i","l","e","p","s","y">>,
    <<"g","e","r","d">>,
    <<"g","a","s","t","r","i","t","i","s">>,
    <<"u","t","i">>,
    <<"i","n","f","e","c","t","i","o","n">>,
    <<"f","e","v","e","r">>,
    <<"p","a","i","n">>,
    <<"a","r","t","h","r","i","t","i","s">>,
    <<"g","o","u","t">>,
    <<"a","n","a","e","m","i","a">>,
    <<"a","n","e","m","i","a">>,
    <<"v","e","r","t","i","g","o">>,
    <<"m","i","g","r","a","i","n","e">>
>>

\* [kw.title() for kw in condition_keywords if kw in text_lower]
_extract_conditions(text) ==
    LET text_lower == Lower(text)
        hit == {k \in 1..Len(CONDITION_KEYWORDS) : Contains(text_lower, CONDITION_KEYWORDS[k])}
    IN  [j \in 1..Cardinality(hit) |-> Title(CONDITION_KEYWORDS[KthSmallest(hit, j)])]

\* allerg(?:ic|y)\s+to\s+([A-Za-z ,]+), IGNORECASE
ALLERGY_RE ==
    Cat(<<Lit(<<"a","l","l","e","r","g">>), Alt(<<Lit(<<"i","c">>), Lit(<<"y">>)>>),
          SpPlus, Lit(<<"t","o">>), SpPlus,
          Grp(1, Plus(Ch(LetterSet \cup {" ", ","})))>>)

\* [a.strip() for a in m.group(1).split(',') if a.strip()]
StrippedParts(parts) ==
    SelectSeq([k \in 1..Len(parts) |-> Strip(parts[k])], LAMBDA a : a # <<>>)
AllergiesOf(m, text) ==
    IF ~m.found THEN <<>> ELSE StrippedParts(SplitOn(Group(text, m, 1), ","))
_extract_allergies(text) == AllergiesOf(re_search(ALLERGY_RE, text, TRUE), text)

----------------------------------------------------------------------------
(* _build_schedule                                                         *)

\* freq_map, in dict order: <<key, frequency_per_day>>
FREQ_MAP == <<
    <<<<"f","o","u","r"," ","t","i","m","e","s">>, 4>>,
    <<<<"t","h","r","e","e"," ","t","i","m","e","s">>, 3>>,
    <<<<"t","w","i","c","e">>, 2>>,
    <<<<"o","n","c","e">>, 1>>,
    <<<<"a","t"," ","b","e","d","t","i","m","e">>, 1>>,
    <<<<"a","s"," ","n","e","e","d","e","d">>, 0>>
>>

\* (\d+)\s*(day|week|month), IGNORECASE
SCHEDULE_DURATION_RE ==
    Cat(<<Grp(1, Digits), SpStar,
          Grp(2, Alt(<<Lit(<<"d","a","y">>), Lit(<<"w","e","e","k">>),
                       Lit(<<"m","o","n","t","h">>)>>))>>)

DigitValue(c) == (CHOOSE i \in 1..10 : DigitChars[i] = c) - 1

\* int(digits)
RECURSIVE ParseInt(_)
ParseInt(ds) ==
    IF ds = <<>> THEN 0
    ELSE 10 * ParseInt(SubSeq(ds, 1, Len(ds) - 1)) + DigitValue(ds[Len(ds)])

DAYS_PER_WEEK == 7
DAYS_PER_MONTH == 30

\* duration_days = None
NoDays == -1

AS_DIRECTED == <<"A","s"," ","d","i","r","e","c","t","e","d">>

\* The schedule of an entry that is not a dict, or whose frequency or duration
\* is not a string, is never built: .get / .lower() / re.search raise.
ScheduleRaises(med) == ~med.obj \/ med.frequency = NullV \/ med.duration = NullV

\* duration_days: n, n * 7 for weeks, n * 30 for months, None without a match
DurationDays(dm, dur) ==
    IF ~dm.found THEN NoDays
    ELSE IF Lower(Group(dur, dm, 2))[1] = "w" THEN ParseInt(Group(dur, dm, 1)) * DAYS_PER_WEEK
    ELSE IF Lower(Group(dur, dm, 2))[1] = "m" THEN ParseInt(Group(dur, dm, 1)) * DAYS_PER_MONTH
    ELSE ParseInt(Group(dur, dm, 1))

\* A variant: the value of the last key of freq_map found in freq_lower.
FrequencyPerDay_last(hit) == IF hit = {} THEN 0 ELSE FREQ_MAP[SetMax(hit)][2]

\* frequency_per_day: the value of the first key of freq_map in freq_lower
FrequencyPerDay(hit) == IF hit = {} THEN 0 ELSE FREQ_MAP[SetMin(hit)][2]

Schedule(freq, freq_lower, dur) ==
    [frequency_per_day |->
        FrequencyPerDay({k \in 1..Len(FREQ_MAP) : Contains(freq_lower, FREQ_MAP[k][1])}),
     as_needed |-> \/ Contains(freq_lower, <<"n","e","e","d","e","d">>)
                   \/ Contains(freq_lower, <<"p","r","n">>)
                   \/ Contains(freq_lower, <<"s","o","s">>),
     duration_days |-> DurationDays(re_search(SCHEDULE_DURATION_RE, dur, TRUE), dur),
     instructions |-> IF freq = <<>> THEN AS_DIRECTED ELSE freq,
     uncertainty |-> freq = <<>>]

\* _build_schedule(med), for an entry it does not raise on
_build_schedule(med) ==
    Schedule(GetStr(med, "frequency"), Lower(GetStr(med, "frequency")), GetStr(med, "duration"))

----------------------------------------------------------------------------
(* _merge_medications                                                      *)

\* m.get("name", "").lower() raises AttributeError when m is not a dict or
\* when the name is not a string.
NameRaises(m) == ~m.obj \/ m.name = NullV
LowerName(m) == Lower(GetStr(m, "name"))

\* Variants of _merge_medications, each departing from the code in one place.
\* Threshold compared with >= instead of >.
_merge_medications_ge(b_meds, f_meds) ==
    IF b_meds.t = "null"
       \/ (\E i \in DOMAIN b_meds.v : NameRaises(b_meds.v[i]))
       \/ (\E i \in DOMAIN f_meds : NameRaises(f_meds[i]))
    THEN [raised |-> TRUE, value |-> <<>>,
          bedrock_meds |-> b_meds.v, fuzzy_meds |-> f_meds]
    ELSE LET bedrock_names == {LowerName(b_meds.v[i]) : i \in DOMAIN b_meds.v}
             keep == SelectSeq(f_meds,
                        LAMBDA fmed : ~\E bname \in bedrock_names :
                            ScoreGE(_fuzzy_score(LowerName(fmed), bname), MERGE_THRESHOLD_PCT))
         IN  [raised |-> FALSE, value |-> b_meds.v \o keep,
              bedrock_meds |-> b_meds.v, fuzzy_meds |-> f_meds]

\* Fuzzy results used only when the external list is empty.
_merge_medications_fallback_only(b_meds, f_meds) ==
    IF b_meds.t = "null"
       \/ (\E i \in DOMAIN b_meds.v : NameRaises(b_meds.v[i]))
       \/ (\E i \in DOMAIN f_meds : NameRaises(f_meds[i]))
    THEN [raised |-> TRUE, value |-> <<>>,
          bedrock_meds |-> b_meds.v, fuzzy_meds |-> f_meds]
    ELSE [raised |-> FALSE,
          value |-> IF b_meds.v = <<>> THEN f_meds ELSE b_meds.v,
          bedrock_meds |-> b_meds.v, fuzzy_meds |-> f_meds]

\* Every fuzzy entry appended, whatever the external list holds.
_merge_medications_all(b_meds, f_meds) ==
    IF b_meds.t = "null"
       \/ (\E i \in DOMAIN b_meds.v : NameRaises(b_meds.v[i]))
       \/ (\E i \in DOMAIN f_meds : NameRaises(f_meds[i]))
    THEN [raised |-> TRUE, value |-> <<>>,
          bedrock_meds |-> b_meds.v, fuzzy_meds |-> f_meds]
    ELSE [raised |-> FALSE, value |-> b_meds.v \o f_meds,
          bedrock_meds |-> b_meds.v, fuzzy_meds |-> f_meds]

\* The external list extended in place (merged = b_meds instead of a
\* copy of it).
_merge_medications_inplace(b_meds, f_meds) ==
    IF b_meds.t = "null"
       \/ (\E i \in DOMAIN b_meds.v : NameRaises(b_meds.v[i]))
       \/ (\E i \in DOMAIN f_meds : NameRaises(f_meds[i]))
    THEN [raised |-> TRUE, value |-> <<>>,
          bedrock_meds |-> b_meds.v, fuzzy_meds |-> f_meds]
    ELSE LET bedrock_names == {LowerName(b_meds.v[i]) : i \in DOMAIN b_meds.v}
             keep == SelectSeq(f_meds,
                        LAMBDA fmed : ~\E bname \in bedrock_names :
                            ScoreGT(_fuzzy_score(LowerName(fmed), bname), MERGE_THRESHOLD_PCT))
         IN  [raised |-> FALSE, value |-> b_meds.v \o keep,
              bedrock_meds |-> b_meds.v \o keep, fuzzy_meds |-> f_meds]

\* _merge_medications(bedrock_meds, fuzzy_meds), with b_meds and f_meds for
\* the two parameters: the outcome of the call.
\*   raised       an exception left the function (list(None), or .get/.lower
\*                on an entry that is not a dict or has a non-string name);
\*   value        the returned list: the external entries, then every fuzzy
\*                entry whose name scores > 0.8 against no external name;
\*   bedrock_meds, fuzzy_meds   the two argument lists as the call leaves
\*                them (merged is a copy, so they are untouched).
_merge_medications(b_meds, f_meds) ==
    IF b_meds.t = "null"
       \/ (\E i \in DOMAIN b_meds.v : NameRaises(b_meds.v[i]))
       \/ (\E i \in DOMAIN f_meds : NameRaises(f_meds[i]))
    THEN [raised |-> TRUE, value |-> <<>>,
          bedrock_meds |-> b_meds.v, fuzzy_meds |-> f_meds]
    ELSE LET bedrock_names == {LowerName(b_meds.v[i]) : i \in DOMAIN b_meds.v}
             keep == SelectSeq(f_meds,
                        LAMBDA fmed : ~\E bname \in bedrock_names :
                            ScoreGT(_fuzzy_score(LowerName(fmed), bname), MERGE_THRESHOLD_PCT))
         IN  [raised |-> FALSE, value |-> b_meds.v \o keep,
              bedrock_meds |-> b_meds.v, fuzzy_meds |-> f_meds]

----------------------------------------------------------------------------
(* Bounded argument lists for _merge_medications                           *)

MaxPrimary == 2
MaxSecondary == 2

\* Entries as the external model reports them (no notes key) ...
ExternalMed(name) == Med(name, Absent, Absent, Absent, Absent, Absent)
\* ... and as the fuzzy stage builds them.
FuzzyMed(name) == Med(name, <<>>, <<>>, <<>>, <<>>, FUZZY_NOTES)

PrimaryPool == {ExternalMed(nCimetidine), ExternalMed(nPrednisone),
                ExternalMed(nVitaminB12), ExternalMed(NullV)}
SecondaryPool == {FuzzyMed(nCimetidine), FuzzyMed(nCinatidise),
                  FuzzyMed(nPrednisolone), FuzzyMed(nVitaminD)}

SeqsUpTo(S, n) == UNION {[1..k -> S] : k \in 0..n}

NoOutcome == [raised |-> FALSE, value |-> <<>>, bedrock_meds |-> <<>>, fuzzy_meds |-> <<>>]


----------------------------------------------------------------------------
(* Replies of the external model                                           *)

tAspirin == <<"A","s","p","i","r","i","n">>
tTwiceDaily == <<"T","w","i","c","e"," ","d","a","i","l","y">>
tFor7Days == <<"F","o","r"," ","7"," ","d","a","y","s">>
t100mg == <<"1","0","0","m","g">>
tOral == <<"O","r","a","l">>
tFever == <<"F","e","v","e","r">>
tPenicillin == <<"P","e","n","i","c","i","l","l","i","n">>

\* A string where a list is expected (its characters are kept)
JText(s) == [t |-> "str", v |-> s]

\* bool(value) of a list-valued key: None, a missing key's default [], the
\* empty list and the empty string are falsy.
Truthy(j) == j.t \in {"list", "str"} /\ j.v # <<>>

\* An entry as the prompt asks for it, and the departures from that schema
\* a parseable reply can hold.
AspirinEntry == Med(tAspirin, t100mg, tTwiceDaily, tFor7Days, tOral, Absent)
NullNameEntry == Med(NullV, t100mg, tTwiceDaily, tFor7Days, tOral, Absent)
NullFrequencyEntry == Med(nCimetidine, t100mg, NullV, tFor7Days, tOral, Absent)
NullDurationEntry == Med(nCimetidine, t100mg, tTwiceDaily, NullV, tOral, Absent)
ReplyEntryPool == {AspirinEntry, NotADict, NullNameEntry, NullFrequencyEntry, NullDurationEntry}

MaxReplyMeds == 2

\* The values of "medications", and of "conditions" with "allergies"
ReplyMedications ==
    {JList(l) : l \in SeqsUpTo(ReplyEntryPool, MaxReplyMeds)} \cup {JNull, JAbsent, JString(1)}
ReplyConditionsAllergies ==
    { <<JList(<<>>), JList(<<>>)>>,
      <<JList(<<tFever>>), JList(<<tPenicillin>>)>>,
      <<JList(<<>>), JList(<<tPenicillin>>)>>,
      <<JNull, JText(tPenicillin)>> }

\* The objects json.loads can return for a reply; the empty object {} is the
\* one with every key missing.
Replies ==
    { [none |-> FALSE, medications |-> m, conditions |-> ca[1], allergies |-> ca[2]] :
          m \in ReplyMedications, ca \in ReplyConditionsAllergies }
    \cup { [none |-> FALSE, medications |-> JAbsent, conditions |-> JAbsent, allergies |-> JAbsent] }
EmptyObject == [none |-> FALSE, medications |-> JAbsent, conditions |-> JAbsent, allergies |-> JAbsent]
\* None
NoResult == [none |-> TRUE, medications |-> JAbsent, conditions |-> JAbsent, allergies |-> JAbsent]

\* if bedrock_result: None and {} are falsy
ResultTruthy(r) == ~r.none /\ r # EmptyObject

\* The text of a reply, by what _parse_bedrock_response makes of it:
\*   null     the text field holds JSON null        (falsy)
\*   empty    ""                                     (falsy)
\*   notstr   a truthy value that is not a string    (re.sub raises TypeError)
\*   prose    no '{' or no '}'                       (None)
\*   badjson  braces around text json.loads rejects  (None)
\*   json     an object, possibly inside fences or prose
ResponseText(kind, reply) == [kind |-> kind, reply |-> reply]
ResponseTexts ==
    {ResponseText(k, NoResult) : k \in {"null", "empty", "notstr", "prose", "badjson"}}
    \cup {ResponseText("json", r) : r \in Replies}

\* if not response_text
TextFalsy(text) == text.kind \in {"null", "empty"}

\* _parse_bedrock_response(raw) / _parse_json_response(raw)
ParseRaises(raw) == raw.kind \in {"null", "notstr"}
_parse_bedrock_response(raw) == IF raw.kind = "json" THEN raw.reply ELSE NoResult

----------------------------------------------------------------------------
(* _call_bedrock and _call_bedrock_converse                                *)

\* for model_id in model_ids_to_try
MODEL_IDS_TO_TRY == <<"claude-3-sonnet", "claude-3-haiku", "BEDROCK_MODEL_ID">>

\* The codes on which _call_bedrock goes on to the next model
SKIP_CODES == {"ValidationException", "ResourceNotFoundException"}
ErrorCodes == SKIP_CODES \cup {"ThrottlingException", "AccessDeniedException"}

\* The exceptions the steps of the adapter can raise
ClientFailures == {"NoRegionError"}
TransportFailures == {"EndpointConnectionError", "ReadTimeoutError"}
BodyFailures == {"JSONDecodeError", "KeyError", "IndexError", "TypeError"}
Exceptions == {"ClientError"} \cup ClientFailures \cup TransportFailures \cup BodyFailures

\* The response formats _call_bedrock tells apart
BodyShapes == {"content", "results", "output", "other"}

\* str(resp_body) of a body in none of the known formats: the repr of a
\* Python object, which json.loads accepts only when it is "{}"
OtherTexts == {ResponseText("badjson", NoResult), ResponseText("json", EmptyObject)}

\* What one invoke_model / converse call can do: a ClientError with a code,
\* a transport failure, a body that is not JSON, a body of a known format
\* whose fields are missing or of the wrong type, a body with a text.
Outcome(t, code, exc, shape, text) ==
    [t |-> t, code |-> code, exc |-> exc, shape |-> shape, text |-> text]
NoText == ResponseText("null", NoResult)
InvokeOutcomes ==
    {Outcome("client_error", c, "ClientError", "", NoText) : c \in ErrorCodes}
    \cup {Outcome("exception", "", e, "", NoText) : e \in TransportFailures}
    \cup {Outcome("bad_body", "", "JSONDecodeError", "", NoText)}
    \cup {Outcome("bad_shape", "", e, s, NoText) :
             e \in {"KeyError", "IndexError", "TypeError"}, s \in BodyShapes \ {"other"}}
    \cup {Outcome("body", "", "", s, x) : s \in BodyShapes \ {"other"}, x \in ResponseTexts}
    \cup {Outcome("body", "", "", "other", x) : x \in OtherTexts}

\* With a second request in flight the outcomes are drawn from a smaller
\* pool: a timeout, and one reply that follows the schema.
ConcurrentReply ==
    [none |-> FALSE, medications |-> JList(<<AspirinEntry>>),
     conditions |-> JList(<<tFever>>), allergies |-> JList(<<tPenicillin>>)]
ConcurrentOutcomes ==
    {Outcome("exception", "", "ReadTimeoutError", "", NoText),
     Outcome("body", "", "", "output", ResponseText("json", ConcurrentReply))}
OutcomePool(alone) == IF alone THEN InvokeOutcomes ELSE ConcurrentOutcomes

\* A variant: the outer handler of _call_bedrock catches ClientError only.
OuterHandlerCatches_clienterror(exc) == exc = "ClientError"

\* except Exception as e: every exception of the adapter's steps derives
\* from Exception.
OuterHandlerCatches(exc) == exc \in Exceptions

\* except ClientError ... except Exception of _call_bedrock_converse
ConverseHandlerCatches(exc) == exc = "ClientError" \/ exc \in Exceptions

----------------------------------------------------------------------------
(* POST /ai/normalize-and-extract: BedrockService.normalize_and_extract    *)
(* under the handler of app.py                                             *)

tAspirinLine == <<"A","s","p","i","r","i","n"," ","1","0","0","m","g"," ","B","D">>
tTwoDrugs == <<"A","s","p","r","i","n","\n","I","b","u","p","r","o","f","e","n">>
tFeverAllergy == <<"A","s","p","r","i","n"," ","7","5","m","g","\n","f","e","v","e","r"," ","a","l","l","e","r","g","i","c"," ","t","o"," ","s","u","l","f","a">>
tParacetam0l == <<" ","P","a","r","a","c","e","t","a","m","0","l"," ">>
tIbuprofenCourse == <<"I","b","u","p","r","o","f","e","n"," ","2","0","0","m","g"," ","B","D"," ","f","o","r"," ","7"," ","d","a","y","s">>
tParacetam0lDose == <<"P","a","r","a","c","e","t","a","m","0","l"," ","1","0","0","m","g"," ","B","D">>

\* A tally sheet of MaxRequestWords strokes, one stroke per line: a text long
\* enough for the highest confidence, with no word the scan looks up
MaxRequestWords == 48
RECURSIVE Strokes(_)
Strokes(n) == IF n = 0 THEN <<>> ELSE IF n = 1 THEN <<"1">> ELSE Strokes(n - 1) \o <<"\n", "1">>
tLongTally == Strokes(MaxRequestWords)

\* The reviewed_text field of the request body (NullV: null or missing)
RequestTexts == {NullV, <<>>, <<" ", " ">>, tAspirinLine, tTwoDrugs, tFeverAllergy, tParacetam0l,
                 tIbuprofenCourse, tParacetam0lDose, tLongTally}

\* The JSON body of the request: its shape (an object, or an array, which
\* has no fields), reviewed_text, and what ocr_confidence holds:
\*   absent  no such key (the default 0.0 is used)
\*   number  a number or a numeric string
\*   null    JSON null              (float(None) raises TypeError)
\*   text    a string float rejects (ValueError)
RequestBody(shape, reviewed_text, ocr_confidence) ==
    [shape |-> shape, reviewed_text |-> reviewed_text, ocr_confidence |-> ocr_confidence]
NoBody == RequestBody("object", NullV, "absent")
RequestBodies ==
    {RequestBody("object", t, "number") : t \in RequestTexts}
    \cup {RequestBody("object", t, c) : t \in {NullV, <<" ", " ">>}, c \in {"absent", "null", "text"}}
    \cup {RequestBody("object", tAspirinLine, "text"), RequestBody("array", NullV, "absent")}

\* data.get(...) on a body that is no object, float(...) of a value that is
\* no number: both run before reviewed_text is tested.
RequestRaises(b) == b.shape # "object" \/ b.ocr_confidence \in {"null", "text"}

NoNormalized == [cleaned_text |-> <<>>, corrections |-> <<>>, confidence |-> 0,
                 flags |-> <<>>, needs_term_review |-> TRUE]
NoResponse == [status |-> 0, ok |-> FALSE, error |-> FALSE, normalized |-> NoNormalized,
               medications |-> <<>>, conditions |-> JList(<<>>), allergies |-> JList(<<>>)]
IdleCall == [model_idx |-> 0, outcome |-> "", raised |-> FALSE, invoked |-> <<>>]

\* NORMALIZATION_CONFIDENCE_FLAG_THRESHOLD (config.py), compared with the
\* confidence, which the model keeps in thousandths
NORMALIZATION_CONFIDENCE_FLAG_THRESHOLD == 70
THOUSANDTHS == 1000

\* A variant: the flag is raised for a confidence above the threshold.
NeedsTermReview_above(norm_conf) ==
    norm_conf > NORMALIZATION_CONFIDENCE_FLAG_THRESHOLD * THOUSANDTHS

\* needs_term_review = norm_conf < app.config["NORMALIZATION_CONFIDENCE_FLAG_THRESHOLD"]
NeedsTermReview(norm_conf) ==
    norm_conf < NORMALIZATION_CONFIDENCE_FLAG_THRESHOLD * THOUSANDTHS

\* A variant: a failure is answered with an empty body and status 200.
ErrorResponse_empty200(status) == [NoResponse EXCEPT !.status = 200]

\* jsonify({"ok": False, "error": ...}), status
ErrorResponse(status) == [NoResponse EXCEPT !.status = status, !.error = TRUE]

\* The fallback is never consulted.
FallbackOr_never(value, fallback) == IF Truthy(value) THEN value ELSE JList(<<>>)

\* The fallback is always taken.
FallbackOr_always(value, fallback) == JList(fallback)

\* value or fallback
FallbackOr(value, fallback) == IF Truthy(value) THEN value ELSE JList(fallback)

clean_text == normalized.cleaned_text

\* The part of the state the request pipeline does not touch
MergeIdle ==
    /\ m_primary = <<>>
    /\ m_secondary = <<>>
    /\ m_out = NoOutcome
    /\ m_pc = "idle"
PipelineIdle ==
    /\ body = NoBody
    /\ normalized = NoNormalized
    /\ call = IdleCall
    /\ bedrock_result = NoResult
    /\ bedrock_meds = JList(<<>>)
    /\ bedrock_conditions = JList(<<>>)
    /\ bedrock_allergies = JList(<<>>)
    /\ merged_meds = <<>>
    /\ stages = <<>>
    /\ response = NoResponse
FuzzyIdle ==
    /\ fuzzy_lines = <<>>
    /\ fuzzy = FuzzyStart
    /\ fuzzy_meds = <<>>
\* The module after import: ALIAS_TO_CANONICAL is filled
StartupDone == startup.e > Len(DRUG_DATABASE)
ModuleReady ==
    /\ alias_index = ALIAS_TO_CANONICAL
    /\ startup = [e |-> Len(DRUG_DATABASE) + 1, a |-> 1]
\* No direct call and no second request
NoDirect == [fn |-> "", pc |-> "idle", arg |-> <<>>, ret |-> <<>>]
\* The locals of a request that has just arrived with body b
NewRequest(b) ==
    [pc |-> "request", body |-> b, normalized |-> NoNormalized, call |-> IdleCall,
     bedrock_result |-> NoResult, bedrock_meds |-> JList(<<>>),
     bedrock_conditions |-> JList(<<>>), bedrock_allergies |-> JList(<<>>),
     fuzzy_lines |-> <<>>, fuzzy |-> FuzzyStart, fuzzy_meds |-> <<>>,
     merged_meds |-> <<>>, stages |-> <<>>, response |-> NoResponse]
NoRequest == [NewRequest(NoBody) EXCEPT !.pc = "none"]
Alone ==
    /\ direct = NoDirect
    /\ parked = NoRequest
mergeVars == <<m_primary, m_secondary, m_out, m_pc>>
moduleVars == <<alias_index, startup>>
fuzzyVars == <<fuzzy_lines, fuzzy, fuzzy_meds>>
pipelineVars == <<body, normalized, call, bedrock_result, bedrock_meds, bedrock_conditions,
                  bedrock_allergies, merged_meds, stages, response>>

Init ==
    /\ pc = "request"
    /\ body \in RequestBodies
    /\ normalized = NoNormalized
    /\ call = IdleCall
    /\ bedrock_result = NoResult
    /\ bedrock_meds = JList(<<>>)
    /\ bedrock_conditions = JList(<<>>)
    /\ bedrock_allergies = JList(<<>>)
    /\ merged_meds = <<>>
    /\ stages = <<>>
    /\ response = NoResponse
    /\ FuzzyIdle
    /\ MergeIdle
    /\ ModuleReady
    /\ Alone

\* reviewed_text = (data.get("reviewed_text") or "").strip()
ReviewedText(b) == Strip(IF b.reviewed_text = NullV THEN <<>> ELSE b.reviewed_text)

\* app.py: the fields of the body are read (an exception there answers 500),
\* 400 when reviewed_text is empty; then step 1 of normalize_and_extract.
ReceiveRequest ==
    /\ pc = "request"
    /\ IF RequestRaises(body)
       THEN /\ response' = ErrorResponse(500)
            /\ pc' = "responded"
            /\ UNCHANGED <<normalized, stages>>
       ELSE IF ReviewedText(body) = <<>>
       THEN /\ response' = ErrorResponse(400)
            /\ pc' = "responded"
            /\ UNCHANGED <<normalized, stages>>
       ELSE /\ normalized' = normalize_ocr_text(ReviewedText(body))
            /\ stages' = Append(stages, "normalize")
            /\ pc' = "call"
            /\ UNCHANGED response
    /\ UNCHANGED <<body, call, bedrock_result, bedrock_meds, bedrock_conditions,
                   bedrock_allergies, merged_meds>>
    /\ UNCHANGED fuzzyVars
    /\ UNCHANGED mergeVars
    /\ UNCHANGED moduleVars
    /\ UNCHANGED <<direct, parked>>

\* The adapter returns result to normalize_and_extract; invoked lists the
\* models it has called, in order, each with what the call did.
ReturnsWith(result, outcome, invoked) ==
    /\ bedrock_result' = result
    /\ call' = [model_idx |-> 0, outcome |-> outcome, raised |-> FALSE, invoked |-> invoked]
    /\ stages' = Append(stages, "external")
    /\ pc' = "unpack"
    /\ UNCHANGED response
AdapterReturns(result, outcome) == ReturnsWith(result, outcome, call.invoked)

\* An exception leaves the adapter: normalize_and_extract does not catch it,
\* the handler of app.py answers 500.
RaisesWith(exc, invoked) ==
    /\ call' = [model_idx |-> 0, outcome |-> exc, raised |-> TRUE, invoked |-> invoked]
    /\ response' = ErrorResponse(500)
    /\ pc' = "responded"
    /\ UNCHANGED <<bedrock_result, stages>>
AdapterRaises(exc) == RaisesWith(exc, call.invoked)

\* An exception inside the try block of _call_bedrock
ExceptWith(exc, invoked) ==
    IF OuterHandlerCatches(exc) THEN ReturnsWith(NoResult, exc, invoked)
    ELSE RaisesWith(exc, invoked)
AdapterExcept(exc) == ExceptWith(exc, call.invoked)

\* After the loop: if not response_text: return None;
\* return _parse_bedrock_response(response_text)
AfterLoopWith(text, invoked) ==
    IF TextFalsy(text) THEN ReturnsWith(NoResult, "no_text", invoked)
    ELSE IF ParseRaises(text) THEN ExceptWith("TypeError", invoked)
    ELSE ReturnsWith(_parse_bedrock_response(text), text.kind, invoked)
AfterLoop(text) == AfterLoopWith(text, call.invoked)

\* What one invoke_model call did: the code of its ClientError, the name of
\* another exception, or "response"
Did(o) ==
    IF o.t = "client_error" THEN o.code ELSE IF o.t = "body" THEN "response" ELSE o.exc
Invocation(model_idx, o) == <<MODEL_IDS_TO_TRY[model_idx], Did(o)>>

\* A variant: every ClientError goes on to the next model.
SkipsToNext_any(code) == TRUE

\* if code in ("ValidationException", "ResourceNotFoundException"): continue
SkipsToNext(code) == code \in SKIP_CODES

adapterFrame ==
    /\ UNCHANGED <<body, normalized, bedrock_meds, bedrock_conditions, bedrock_allergies,
                   merged_meds>>
    /\ UNCHANGED fuzzyVars
    /\ UNCHANGED mergeVars
    /\ UNCHANGED moduleVars
    /\ UNCHANGED <<direct, parked>>

\* _call_bedrock: boto3.client(...), the prompt and the request body
CreateClient ==
    /\ pc = "call"
    /\ \E ok \in BOOLEAN :
          IF ok
          THEN /\ call' = [call EXCEPT !.model_idx = 1]
               /\ pc' = "invoke"
               /\ UNCHANGED <<bedrock_result, stages, response>>
          ELSE \E exc \in ClientFailures : AdapterExcept(exc)
    /\ adapterFrame

\* _call_bedrock: one iteration of the loop over model_ids_to_try, and, when
\* the loop ends with it, the rest of the function
InvokeModel ==
    /\ pc = "invoke"
    /\ \E o \in OutcomePool(parked.pc = "none") :
          IF o.t = "client_error"
          THEN IF SkipsToNext(o.code)
               THEN IF call.model_idx < Len(MODEL_IDS_TO_TRY)
                    THEN /\ call' = [call EXCEPT
                                !.model_idx = @ + 1,
                                !.invoked = Append(@, Invocation(call.model_idx, o))]
                         /\ UNCHANGED <<pc, bedrock_result, stages, response>>
                    ELSE AfterLoopWith(NoText, Append(call.invoked, Invocation(call.model_idx, o)))
               ELSE ExceptWith(o.exc, Append(call.invoked, Invocation(call.model_idx, o)))
          ELSE IF o.t = "body"
               THEN AfterLoopWith(o.text, Append(call.invoked, Invocation(call.model_idx, o)))
          ELSE ExceptWith(o.exc, Append(call.invoked, Invocation(call.model_idx, o)))
    /\ adapterFrame

\* An exception inside the try block of _call_bedrock_converse
ConverseExcept(exc) ==
    IF ConverseHandlerCatches(exc) THEN AdapterReturns(NoResult, exc) ELSE AdapterRaises(exc)

\* _call_bedrock_converse (AI/backend): client, one converse call, the text
\* at response["output"]["message"]["content"][0]["text"], the parse
CallConverse ==
    /\ pc = "call"
    /\ \/ \E exc \in ClientFailures : ConverseExcept(exc)
       \/ \E o \in {x \in OutcomePool(parked.pc = "none") : x.shape \in {"", "output"}} :
             IF o.t # "body" THEN ConverseExcept(o.exc)
             ELSE IF ParseRaises(o.text) THEN ConverseExcept("TypeError")
             ELSE AdapterReturns(_parse_bedrock_response(o.text), o.text.kind)
    /\ adapterFrame

\* dict.get(key, []) of a list-valued key
GetList(j) == IF j.t = "absent" THEN JList(<<>>) ELSE j

\* len(x) raises TypeError on None
LenRaises(j) == j.t = "null"

\* Step 2, after the call: the three lists are taken from a truthy result,
\* and the log line evaluates len(bedrock_meds); then step 3 begins.
Unpack ==
    /\ pc = "unpack"
    /\ IF ResultTruthy(bedrock_result)
       THEN /\ bedrock_meds' = GetList(bedrock_result.medications)
            /\ bedrock_conditions' = GetList(bedrock_result.conditions)
            /\ bedrock_allergies' = GetList(bedrock_result.allergies)
       ELSE UNCHANGED <<bedrock_meds, bedrock_conditions, bedrock_allergies>>
    /\ IF ResultTruthy(bedrock_result) /\ LenRaises(GetList(bedrock_result.medications))
       THEN /\ response' = ErrorResponse(500)
            /\ pc' = "responded"
            /\ UNCHANGED <<fuzzy_lines, fuzzy>>
       ELSE /\ fuzzy_lines' = TextLines(clean_text)
            /\ fuzzy' = FuzzyStart
            /\ pc' = "fuzzy"
            /\ UNCHANGED response
    \* _call_bedrock's frame, and with it the record of its loop, is gone
    /\ call' = [call EXCEPT !.invoked = <<>>]
    /\ UNCHANGED <<body, normalized, bedrock_result, merged_meds, stages, fuzzy_meds>>
    /\ UNCHANGED mergeVars
    /\ UNCHANGED moduleVars
    /\ UNCHANGED <<direct, parked>>

\* extract_medications_fuzzy: one step of the scan
FuzzyScan ==
    /\ pc = "fuzzy"
    /\ ~FuzzyDone(fuzzy_lines, fuzzy)
    /\ fuzzy' = FuzzyStep(alias_index, fuzzy_lines, fuzzy)
    /\ UNCHANGED <<pc, fuzzy_lines, fuzzy_meds>>
    /\ UNCHANGED pipelineVars
    /\ UNCHANGED mergeVars
    /\ UNCHANGED moduleVars
    /\ UNCHANGED <<direct, parked>>

\* extract_medications_fuzzy: return medications
FuzzyReturn ==
    /\ pc = "fuzzy"
    /\ FuzzyDone(fuzzy_lines, fuzzy)
    /\ fuzzy_meds' = fuzzy.medications
    /\ stages' = Append(stages, "fuzzy")
    /\ pc' = "merge"
    /\ UNCHANGED <<fuzzy_lines, fuzzy>>
    /\ UNCHANGED <<body, normalized, call, bedrock_result, bedrock_meds, bedrock_conditions,
                   bedrock_allergies, merged_meds, response>>
    /\ UNCHANGED mergeVars
    /\ UNCHANGED moduleVars
    /\ UNCHANGED <<direct, parked>>

\* Step 4: merged_meds = _merge_medications(bedrock_meds, fuzzy_meds)
Merge ==
    /\ pc = "merge"
    /\ LET r == _merge_medications(bedrock_meds, fuzzy_meds)
       IN  IF r.raised
           THEN /\ response' = ErrorResponse(500)
                /\ pc' = "responded"
                /\ UNCHANGED <<merged_meds, stages>>
           ELSE /\ merged_meds' = r.value
                /\ stages' = Append(stages, "merge")
                /\ pc' = "schedule"
                /\ UNCHANGED response
    /\ UNCHANGED <<body, normalized, call, bedrock_result, bedrock_meds, bedrock_conditions,
                   bedrock_allergies>>
    /\ UNCHANGED fuzzyVars
    /\ UNCHANGED mergeVars
    /\ UNCHANGED moduleVars
    /\ UNCHANGED <<direct, parked>>

\* med["schedule"] = schedule
WithSchedule(med, schedule) ==
    [obj |-> med.obj, name |-> med.name, dosage |-> med.dosage, frequency |-> med.frequency,
     duration |-> med.duration, route |-> med.route, notes |-> med.notes,
     schedule |-> schedule]
WithoutSchedule(e) == Med(e.name, e.dosage, e.frequency, e.duration, e.route, e.notes)

\* Step 5 and the rest: every entry gets its schedule, the entity bundle and
\* the response are built; app.py sets needs_term_review and answers 200.
\* An entry whose schedule cannot be built ends the request with 500.
Respond ==
    /\ pc = "schedule"
    /\ IF \E k \in DOMAIN merged_meds : ScheduleRaises(merged_meds[k])
       THEN /\ response' = ErrorResponse(500)
            /\ UNCHANGED stages
       ELSE /\ response' =
                  [status |-> 200, ok |-> TRUE, error |-> FALSE,
                   normalized |-> [normalized EXCEPT !.needs_term_review =
                       NeedsTermReview(normalized.confidence)],
                   medications |-> [k \in DOMAIN merged_meds |->
                       WithSchedule(merged_meds[k], _build_schedule(merged_meds[k]))],
                   conditions |-> FallbackOr(bedrock_conditions, _extract_conditions(clean_text)),
                   allergies |-> FallbackOr(bedrock_allergies, _extract_allergies(clean_text))]
            /\ stages' = Append(stages, "schedule")
    /\ pc' = "responded"
    /\ UNCHANGED <<body, normalized, call, bedrock_result, bedrock_meds, bedrock_conditions,
                   bedrock_allergies, merged_meds>>
    /\ UNCHANGED fuzzyVars
    /\ UNCHANGED mergeVars
    /\ UNCHANGED moduleVars
    /\ UNCHANGED <<direct, parked>>

Next ==
    \/ ReceiveRequest
    \/ CreateClient
    \/ InvokeModel
    \/ CallConverse
    \/ Unpack
    \/ FuzzyScan
    \/ FuzzyReturn
    \/ Merge
    \/ Respond

Spec == Init /\ [][Next]_vars

----------------------------------------------------------------------------
(* extract_medications_fuzzy on bounded texts (specification SpecFuzzy)    *)

lAspirin100 == <<"A","s","p","i","r","i","n"," ","1","0","0","m","g">>
lAsprin75 == <<"A","s","p","r","i","n"," ","7","5","m","g">>
lIbuprofenAspirin == <<"I","b","u","p","r","o","f","e","n"," ","A","S","P","I","R","I","N">>
lBrufen == <<"b","r","u","f","e","n">>
LinePool == {<<>>, lAspirin100, lAsprin75, lIbuprofenAspirin, lBrufen}

MaxLines == 3

\* '\n'.join(lines)
RECURSIVE JoinLines(_)
JoinLines(lines) ==
    IF lines = <<>> THEN <<>>
    ELSE IF Len(lines) = 1 THEN lines[1]
    ELSE lines[1] \o <<"\n">> \o JoinLines(Tail(lines))

FuzzyTexts == {JoinLines(l) : l \in SeqsUpTo(LinePool, MaxLines)}

\* A call extract_medications_fuzzy(text): the text is split into lines and
\* the scan starts.
InitFuzzy ==
    /\ pc = "fuzzy"
    /\ \E text \in FuzzyTexts : fuzzy_lines = TextLines(text)
    /\ fuzzy = FuzzyStart
    /\ fuzzy_meds = <<>>
    /\ PipelineIdle
    /\ MergeIdle
    /\ ModuleReady
    /\ Alone

NextFuzzy == FuzzyScan \/ FuzzyReturn

SpecFuzzy == InitFuzzy /\ [][NextFuzzy]_vars

----------------------------------------------------------------------------
(* Claims about the request pipeline (specification Spec)                  *)

Responded == pc = "responded"
\* The adapter has returned to normalize_and_extract
ExternalDone == \E k \in DOMAIN stages : stages[k] = "external"
FuzzyStageDone == \E k \in DOMAIN stages : stages[k] = "fuzzy"
Bundle200 == Responded /\ response.status = 200

\* The entries of the bundle without their schedules
BundleEntries == [k \in DOMAIN response.medications |-> WithoutSchedule(response.medications[k])]

\* The bundle holds what the fuzzy stage and the keyword scans alone give
FallbackBundle ==
    /\ BundleEntries = extract_medications_fuzzy(alias_index, clean_text)
    /\ response.conditions = JList(_extract_conditions(clean_text))
    /\ response.allergies = JList(_extract_allergies(clean_text))

\* C1: whenever the adapter returns None, the request still answers ok:true,
\* the bundle's medications are exactly the fuzzy candidates in their order,
\* and conditions and allergies are the keyword scans of the cleaned text.
C1_NoneGivesFallbackBundle ==
    (Responded /\ ExternalDone /\ bedrock_result.none) =>
        /\ response.status = 200
        /\ response.ok
        /\ FallbackBundle

C1_Witness ==
    /\ Bundle200
    /\ ExternalDone
    /\ bedrock_result.none
    /\ Len(response.medications) = 1
    /\ response.conditions = JList(<<tFever>>)
    /\ response.allergies.v # <<>>

\* How a call that found nothing can have ended
FailureOutcomes == Exceptions \cup {"no_text", "empty", "prose", "badjson"}

\* C2: the adapter never raises to its caller: whatever the model call does,
\* it returns a parsed object or None, and None on every failure.
C2_AdapterNeverRaises ==
    /\ ~call.raised
    /\ ExternalDone =>
          /\ bedrock_result.none \/ bedrock_result \in Replies
          /\ call.outcome \in FailureOutcomes => bedrock_result.none

C2_Witness ==
    /\ pc = "unpack"
    /\ call.outcome = "ReadTimeoutError"
    /\ bedrock_result.none

\* A reply that departs from the schema of the prompt
Malformed(r) ==
    /\ ~r.none
    /\ \/ r.medications.t # "list"
       \/ r.conditions.t # "list"
       \/ r.allergies.t # "list"
       \/ \E k \in DOMAIN r.medications.v :
             \/ ~r.medications.v[k].obj
             \/ r.medications.v[k].name = NullV
             \/ r.medications.v[k].frequency = NullV
             \/ r.medications.v[k].duration = NullV

\* C3 as stated: no reply of the external model fails the request; after a
\* malformed reply the request answers ok:true with the fuzzy candidates and
\* the keyword fallback.
C3_MalformedReplyRecovered ==
    (Responded /\ ExternalDone) =>
        /\ response.status = 200
        /\ response.ok
        /\ Malformed(bedrock_result) => FallbackBundle

\* The order of the steps of normalize_and_extract
STAGE_ORDER == <<"normalize", "external", "fuzzy", "merge", "schedule">>

\* C4 as stated: every request that passes input validation runs the fuzzy
\* stage on the cleaned text, whatever the external stage did, and the merge
\* starts only after both stages have finished.
C4_FuzzyAlwaysRuns ==
    /\ stages = SubSeq(STAGE_ORDER, 1, Len(stages))
    /\ (Responded /\ ~RequestRaises(body) /\ ReviewedText(body) # <<>>) =>
          /\ FuzzyStageDone
          /\ fuzzy_meds = extract_medications_fuzzy(alias_index, clean_text)

EntryName(e) == Lower(GetStr(e, "name"))

\* C8 as stated: the medication list of every returned bundle never holds
\* two entries with the same drug name (ignoring case), and every entry
\* carries a schedule.
C8_NoTwoSameName ==
    Bundle200 =>
        /\ \A j, k \in DOMAIN response.medications :
              j # k => EntryName(response.medications[j]) # EntryName(response.medications[k])
        /\ \A k \in DOMAIN response.medications :
              response.medications[k].schedule = _build_schedule(BundleEntries[k])

\* C8, amended: the medication list of every returned bundle is the external
\* entries as the model reported them, repeated names included, followed by
\* fuzzy candidates; no fuzzy candidate in it has the name (ignoring case) of
\* another entry; and every entry carries a schedule.
C8_FuzzyEntriesUnique ==
    Bundle200 =>
        /\ Len(response.medications) >= Len(bedrock_meds.v)
        /\ SubSeq(BundleEntries, 1, Len(bedrock_meds.v)) = bedrock_meds.v
        /\ \A k \in (Len(bedrock_meds.v) + 1)..Len(response.medications) :
              /\ \E f \in DOMAIN fuzzy_meds : fuzzy_meds[f] = BundleEntries[k]
              /\ \A j \in DOMAIN response.medications :
                    j # k => EntryName(response.medications[j]) # EntryName(response.medications[k])
        /\ \A k \in DOMAIN response.medications :
              response.medications[k].schedule = _build_schedule(BundleEntries[k])

C8_Witness ==
    /\ Bundle200
    /\ bedrock_meds = JList(<<AspirinEntry, AspirinEntry>>)
    /\ Len(fuzzy_meds) = 2
    /\ Len(response.medications) = 3

\* One field of the bundle against the external stage's value ext for it:
\* ext itself when the stage succeeded and ext is a non-empty array, the
\* keyword scan otherwise.  (ext is an array, null or missing.)
FieldChoice(chosen, ext, scanned) ==
    ext.t \in {"list", "null", "absent"} =>
        chosen = IF ResultTruthy(bedrock_result) /\ ext.t = "list" /\ ext.v # <<>>
                 THEN ext ELSE JList(scanned)

\* C19: conditions and allergies are chosen per field: each is the external
\* stage's array when the external stage succeeded and that array is
\* non-empty, and the keyword scan of the cleaned text otherwise,
\* independently of the other field.
C19_PerFieldFallback ==
    Bundle200 =>
        /\ FieldChoice(response.conditions, bedrock_result.conditions,
                       _extract_conditions(clean_text))
        /\ FieldChoice(response.allergies, bedrock_result.allergies,
                       _extract_allergies(clean_text))

\* Conditions from the keyword scan, allergies from the external stage
C19_Witness ==
    /\ Bundle200
    /\ bedrock_result.conditions = JList(<<>>)
    /\ response.conditions = JList(<<tFever>>)
    /\ response.allergies = JList(<<tPenicillin>>)
    /\ JList(_extract_allergies(clean_text)) \notin {JList(<<>>), response.allergies}

\* reviewed_text is missing, null, empty or whitespace only
TextMissing(b) == ReviewedText(b) = <<>>

\* C20 as stated: a request whose reviewed_text is missing, empty or
\* whitespace-only is answered 400 with ok:false, and neither
\* normalization, nor the external call, nor the fuzzy stage is started.
C20_EmptyTextAnswered400 ==
    (Responded /\ TextMissing(body)) =>
        /\ response.status = 400
        /\ ~response.ok
        /\ stages = <<>>
        /\ normalized = NoNormalized
        /\ call = IdleCall
        /\ fuzzy_lines = <<>>

----------------------------------------------------------------------------
(* Claims about extract_medications_fuzzy (specification SpecFuzzy)        *)

NoTwoSameName(meds) ==
    \A j, k \in DOMAIN meds : j # k => EntryName(meds[j]) # EntryName(meds[k])

\* C10: extract_medications_fuzzy never holds, and never returns, two
\* candidates with the same canonical name (ignoring case); a candidate once
\* appended is kept as it is, and a candidate is appended only for a token
\* that resolves to a name no earlier candidate has.
C10_DedupFirstKept ==
    [][ /\ NoTwoSameName(fuzzy'.medications)
        /\ NoTwoSameName(fuzzy_meds')
        /\ Len(fuzzy'.medications) >= Len(fuzzy.medications)
        /\ SubSeq(fuzzy'.medications, 1, Len(fuzzy.medications)) = fuzzy.medications
        /\ Len(fuzzy'.medications) > Len(fuzzy.medications) =>
              /\ Len(fuzzy'.medications) = Len(fuzzy.medications) + 1
              /\ fuzzy'.medications[Len(fuzzy'.medications)].name
                     = _find_drug_fuzzy(alias_index, Token(fuzzy_lines, fuzzy))
        /\ pc' = "merge" => fuzzy_meds' = fuzzy.medications
      ]_vars

C10_Witness ==
    /\ pc = "merge"
    /\ fuzzy_lines = <<lAspirin100, <<>>, lAsprin75>>
    /\ fuzzy_meds = <<FuzzyCandidate(tAspirin, lAspirin100 \o <<" ">>)>>

\* The words of the lines that are registered aliases, ignoring case
WrittenAliases(index, lines) ==
    UNION {{Lower(w) : w \in {x \in Range(SplitWords(lines[k])) : DictHas(index, Lower(x))}} :
              k \in DOMAIN lines}

\* C12 as stated: every whitespace-delimited word of the text that equals a
\* registered alias (ignoring case) has its canonical drug among the
\* candidates extract_medications_fuzzy returns, also when several drugs
\* stand on one line.
C12_EveryWrittenDrugExtracted ==
    pc = "merge" =>
        \A w \in WrittenAliases(alias_index, fuzzy_lines) :
            \E k \in DOMAIN fuzzy_meds : fuzzy_meds[k].name = DictGet(alias_index, w)

----------------------------------------------------------------------------
(* _merge_medications on bounded argument lists (specification SpecMerge)  *)

InitMerge ==
    /\ m_primary \in SeqsUpTo(PrimaryPool, MaxPrimary)
    /\ m_secondary \in SeqsUpTo(SecondaryPool, MaxSecondary)
    /\ m_out = NoOutcome
    /\ m_pc = "call"
    /\ pc = "idle"
    /\ PipelineIdle
    /\ FuzzyIdle
    /\ ModuleReady
    /\ Alone

\* merged = _merge_medications(primary, secondary); m_primary and m_secondary
\* keep the lists as the caller passed them, m_out holds what the call
\* returned and what it left in the two lists.
MergeCall ==
    /\ m_pc = "call"
    /\ LET r == _merge_medications(JList(m_primary), m_secondary)
       IN  /\ m_out' = r
           /\ m_pc' = IF r.raised THEN "raised" ELSE "returned"
           /\ UNCHANGED <<m_primary, m_secondary>>
    /\ UNCHANGED <<pc, fuzzy_lines, fuzzy, fuzzy_meds>>
    /\ UNCHANGED pipelineVars
    /\ UNCHANGED moduleVars
    /\ UNCHANGED <<direct, parked>>

NextMerge == MergeCall

SpecMerge == InitMerge /\ [][NextMerge]_vars

----------------------------------------------------------------------------
(* Claims about _merge_medications (specification SpecMerge)               *)

MergeReturned == m_pc = "returned"
\* The entries of the output after the first Len(primary) ones
Added == SubSeq(m_out.value, Len(m_primary) + 1, Len(m_out.value))
\* Some primary name scores against this entry's name: above / at least /
\* exactly the merge threshold
MatchesAbove(fmed) ==
    \E i \in DOMAIN m_primary :
        ScoreGT(_fuzzy_score(LowerName(fmed), LowerName(m_primary[i])), MERGE_THRESHOLD_PCT)
MatchesAtLeast(fmed) ==
    \E i \in DOMAIN m_primary :
        ScoreGE(_fuzzy_score(LowerName(fmed), LowerName(m_primary[i])), MERGE_THRESHOLD_PCT)
MatchesExactly(fmed) ==
    \E i \in DOMAIN m_primary :
        ScoreEQ(_fuzzy_score(LowerName(fmed), LowerName(m_primary[i])), MERGE_THRESHOLD_PCT)
IsAdded(fmed) == \E k \in DOMAIN Added : Added[k] = fmed

CimetidineCase ==
    /\ MergeReturned
    /\ m_primary = <<ExternalMed(nCimetidine)>>
    /\ m_secondary = <<FuzzyMed(nCinatidise)>>

\* C5 as stated: merge of primary [Cimetidine] and secondary [Cinatidise]
\* returns exactly one entry, the primary Cimetidine.
C5_OneEntry ==
    CimetidineCase => m_out.value = <<ExternalMed(nCimetidine)>>

\* C5, amended: the similarity of "Cinatidise" and "Cimetidine" is 0.7, which
\* is not above the merge threshold 0.8, so merge of primary [Cimetidine] and
\* secondary [Cinatidise] returns two entries: the primary Cimetidine, then
\* the secondary Cinatidise.
C5_TwoEntries ==
    CimetidineCase =>
        /\ _fuzzy_score(nCinatidise, nCimetidine) = <<14, 20>>
        /\ ~ScoreGT(_fuzzy_score(nCinatidise, nCimetidine), MERGE_THRESHOLD_PCT)
        /\ m_out.value = <<ExternalMed(nCimetidine), FuzzyMed(nCinatidise)>>

C5_Witness == CimetidineCase /\ Len(m_out.value) = 2

\* C6 as stated: a secondary entry is added iff its name has similarity
\* below 0.8 to every primary name; at exactly 0.8 it is not added.
C6_AddedIffBelow ==
    MergeReturned =>
        \A j \in DOMAIN m_secondary :
            IsAdded(m_secondary[j]) <=> ~MatchesAtLeast(m_secondary[j])

\* C6, amended: a secondary entry is added iff no primary name has
\* similarity above 0.8 to its name (the comparison is strict); a secondary
\* entry whose best similarity to a primary name is exactly 0.8 is added.
C6_AddedIffNotAbove ==
    MergeReturned =>
        \A j \in DOMAIN m_secondary :
            /\ IsAdded(m_secondary[j]) <=> ~MatchesAbove(m_secondary[j])
            /\ (MatchesExactly(m_secondary[j]) /\ ~MatchesAbove(m_secondary[j]))
                   => IsAdded(m_secondary[j])

C6_Witness ==
    /\ MergeReturned
    /\ m_primary = <<ExternalMed(nVitaminB12)>>
    /\ m_secondary = <<FuzzyMed(nVitaminD)>>
    /\ MatchesExactly(m_secondary[1])
    /\ m_out.value = <<ExternalMed(nVitaminB12), FuzzyMed(nVitaminD)>>

\* s is t with some elements left out, the order kept
IsSubsequence(s, t) ==
    \E f \in [DOMAIN s -> DOMAIN t] :
        /\ \A a, b \in DOMAIN s : a < b => f[a] < f[b]
        /\ \A a \in DOMAIN s : t[f[a]] = s[a]

\* C7: the output of merge starts with every primary entry, unchanged and in
\* its original order, followed by added secondary entries in their original
\* relative order; and the call leaves both argument lists as they were.
C7_PrimaryFirstInputsKept ==
    /\ MergeReturned =>
          /\ Len(m_out.value) >= Len(m_primary)
          /\ SubSeq(m_out.value, 1, Len(m_primary)) = m_primary
          /\ IsSubsequence(Added, m_secondary)
    /\ m_pc # "call" =>
          /\ m_out.bedrock_meds = m_primary
          /\ m_out.fuzzy_meds = m_secondary

C7_Witness ==
    /\ MergeReturned
    /\ Len(m_primary) = 2
    /\ Len(m_secondary) = 2
    /\ Len(Added) = 1
    /\ Added[1] = m_secondary[2]

\* Two names denote the same drug: equal ignoring case, or both resolve to
\* the same canonical name of the drug database.
SameDrug(a, b) ==
    \/ Lower(a) = Lower(b)
    \/ /\ _find_drug_fuzzy(alias_index, a) # NullV
       /\ _find_drug_fuzzy(alias_index, a) = _find_drug_fuzzy(alias_index, b)

\* C9 as stated: merging loses no drug of the fuzzy stage: every secondary
\* entry's drug is in the merged list, as its own entry or as a primary entry
\* for that same drug.
C9_NoFuzzyDrugLost ==
    MergeReturned =>
        \A j \in DOMAIN m_secondary :
            \E k \in DOMAIN m_out.value :
                SameDrug(GetStr(m_out.value[k], "name"), GetStr(m_secondary[j], "name"))

----------------------------------------------------------------------------
(* Import of the module and direct calls of _find_drug_fuzzy               *)
(* (specification SpecLookup)                                              *)

tIbuprofenPadded == <<"i","b","u","p","r","o","f","e","n","q","q","q","q","q","q","q">>
tIbuprofenPadded8 == <<"i","b","u","p","r","o","f","e","n","q","q","q","q","q","q","q","q">>
tAdvilPadded == <<"a","d","v","i","l","q","q","q","q">>
tAspirinPadded5 == <<"a","s","p","i","r","i","n","q","q","q","q","q">>
tAspirinPadded6 == <<"a","s","p","i","r","i","n","q","q","q","q","q","q">>
tAsprn == <<"A","s","p","r","n">>
tSpacedAspirin == <<" "," ","A","S","P","I","R","I","N","\n">>
tTablet == <<"t","a","b","l","e","t">>
tDaily == <<"d","a","i","l","y">>

\* The keys and the aliases of DRUG_DATABASE as they are written there
DatabaseKeys == {DRUG_DATABASE[e][1] : e \in DOMAIN DRUG_DATABASE}
DatabaseAliases ==
    UNION {{DRUG_DATABASE[e][2][a] : a \in DOMAIN DRUG_DATABASE[e][2]} : e \in DOMAIN DRUG_DATABASE}

\* The tokens looked up: every key and alias, lower-case and title-case, and
\* tokens that are no alias, among them tokens at and around FUZZY_THRESHOLD.
LookupTokens ==
    DatabaseKeys \cup DatabaseAliases
    \cup {Title(x) : x \in DatabaseKeys \cup DatabaseAliases}
    \cup {<<" ">> \o x \o <<"\t">> : x \in DatabaseKeys}
    \cup {<<>>, tIbuprofenPadded, tIbuprofenPadded8, tAdvilPadded, tAspirinPadded5,
          tAspirinPadded6, tAsprn, tSpacedAspirin, tTablet, tDaily, tParacetam0l}

\* import: ALIAS_TO_CANONICAL = {} and the two loops are about to start
InitLookup ==
    /\ alias_index = <<>>
    /\ startup = [e |-> 1, a |-> 1]
    /\ Alone
    /\ pc = "idle"
    /\ PipelineIdle
    /\ FuzzyIdle
    /\ MergeIdle

\* ALIAS_TO_CANONICAL[alias.lower()] = canonical.title(), for the next alias
RegisterAlias ==
    /\ ~StartupDone
    /\ alias_index' = DictSet(alias_index,
                              Lower(DRUG_DATABASE[startup.e][2][startup.a]),
                              Title(DRUG_DATABASE[startup.e][1]))
    /\ startup' = IF startup.a < Len(DRUG_DATABASE[startup.e][2])
                  THEN [startup EXCEPT !.a = @ + 1]
                  ELSE [e |-> startup.e + 1, a |-> 1]
    /\ UNCHANGED <<direct, parked, pc>>
    /\ UNCHANGED pipelineVars
    /\ UNCHANGED fuzzyVars
    /\ UNCHANGED mergeVars

\* A call _find_drug_fuzzy(token) once the module is imported
FindDrugCall ==
    /\ StartupDone
    /\ direct.pc = "idle"
    /\ \E token \in LookupTokens :
          direct' = [fn |-> "_find_drug_fuzzy", pc |-> "returned", arg |-> token,
                     ret |-> _find_drug_fuzzy(alias_index, token)]
    /\ UNCHANGED <<parked, pc>>
    /\ UNCHANGED moduleVars
    /\ UNCHANGED pipelineVars
    /\ UNCHANGED fuzzyVars
    /\ UNCHANGED mergeVars

NextLookup == RegisterAlias \/ FindDrugCall

SpecLookup == InitLookup /\ [][NextLookup]_vars

----------------------------------------------------------------------------
(* Claims about _find_drug_fuzzy and the alias index (SpecLookup)          *)

LookupReturned == direct.fn = "_find_drug_fuzzy" /\ direct.pc = "returned"

\* The entries of the drug table that list the alias
EntriesListing(alias_l) ==
    {e \in DOMAIN DRUG_DATABASE :
        \E a \in DOMAIN DRUG_DATABASE[e][2] : Lower(DRUG_DATABASE[e][2][a]) = alias_l}

\* The similarity of the token to every alias: <<alias, canonical, score>>
SimilaritiesTo(token_l, al, entries) ==
    {<<al, Title(DRUG_DATABASE[e][1]), _fuzzy_score(token_l, al)>> : e \in entries}
Similarities(token_l) ==
    UNION {SimilaritiesTo(token_l, Lower(x), EntriesListing(Lower(x))) : x \in DatabaseAliases}

HighestOf(sims) == {x \in sims : \A y \in sims : ~ScoreGreater(y[3], x[3])}

\* The answer for a token that is no alias, from the highest similarities
ThresholdAnswer(ret, highest) ==
    /\ ret # NullV <=> \E x \in highest : 100 * x[3][1] >= 72 * x[3][2]
    /\ ret # NullV => \E x \in highest : x[2] = ret

LookupAnswer(ret, token_l) ==
    IF EntriesListing(token_l) # {}
    THEN \E e \in EntriesListing(token_l) : ret = Title(DRUG_DATABASE[e][1])
    ELSE ThresholdAnswer(ret, HighestOf(Similarities(token_l)))

\* C11: a token that is an exact alias (stripped, ignoring case) resolves to
\* that alias's canonical name; any other token resolves to the canonical
\* name of an alias of highest similarity if and only if that similarity is
\* at least 0.72, 0.72 itself included, and to nothing otherwise.
C11_ThresholdInclusive ==
    LookupReturned => LookupAnswer(direct.ret, Strip(Lower(direct.arg)))

\* The similarity is exactly 18/25 = 0.72 and the token is accepted
C11_Witness ==
    /\ LookupReturned
    /\ direct.arg = tIbuprofenPadded
    /\ direct.ret = Title(<<"i","b","u","p","r","o","f","e","n">>)
    /\ \A x \in HighestOf(Similarities(tIbuprofenPadded)) : 100 * x[3][1] = 72 * x[3][2]

\* C13 as stated: once the alias index is built, every key of the drug table
\* is registered as an alias of itself: its lookup exists and returns the
\* canonical name of that key.
C13_KeyIsOwnAlias ==
    StartupDone =>
        \A e \in DOMAIN DRUG_DATABASE :
            /\ DictHas(alias_index, Lower(DRUG_DATABASE[e][1]))
            /\ DictGet(alias_index, Lower(DRUG_DATABASE[e][1])) = Title(DRUG_DATABASE[e][1])

----------------------------------------------------------------------------
(* Two requests served by two threads (specification SpecConcurrent)       *)

\* The locals of the running request
RequestLocals ==
    [pc |-> pc, body |-> body, normalized |-> normalized, call |-> call,
     bedrock_result |-> bedrock_result, bedrock_meds |-> bedrock_meds,
     bedrock_conditions |-> bedrock_conditions, bedrock_allergies |-> bedrock_allergies,
     fuzzy_lines |-> fuzzy_lines, fuzzy |-> fuzzy, fuzzy_meds |-> fuzzy_meds,
     merged_meds |-> merged_meds, stages |-> stages, response |-> response]

\* A variant: seen is a module-level set, which a resumed call finds as the
\* other thread left it.
SeenOnResume_module(own, current) == current

\* seen = set() is a local of extract_medications_fuzzy: a resumed call
\* finds its own.
SeenOnResume(own, current) == own

ConcurrentBodies ==
    {RequestBody("object", t, "number") : t \in {<<>>, tAspirinLine, tTwoDrugs}}
ParkedBodies == {RequestBody("object", tAspirinLine, "number")}

\* Two requests have arrived; one thread runs, the other waits.
InitConcurrent ==
    /\ pc = "request"
    /\ body \in ConcurrentBodies
    /\ normalized = NoNormalized
    /\ call = IdleCall
    /\ bedrock_result = NoResult
    /\ bedrock_meds = JList(<<>>)
    /\ bedrock_conditions = JList(<<>>)
    /\ bedrock_allergies = JList(<<>>)
    /\ merged_meds = <<>>
    /\ stages = <<>>
    /\ response = NoResponse
    /\ FuzzyIdle
    /\ MergeIdle
    /\ ModuleReady
    /\ direct = NoDirect
    /\ parked \in {NewRequest(b) : b \in ParkedBodies}

\* The interpreter switches threads: the running request's locals are set
\* aside and the other request goes on with its own.
Switch ==
    /\ parked.pc # "none"
    /\ parked' = RequestLocals
    /\ pc' = parked.pc
    /\ body' = parked.body
    /\ normalized' = parked.normalized
    /\ call' = parked.call
    /\ bedrock_result' = parked.bedrock_result
    /\ bedrock_meds' = parked.bedrock_meds
    /\ bedrock_conditions' = parked.bedrock_conditions
    /\ bedrock_allergies' = parked.bedrock_allergies
    /\ fuzzy_lines' = parked.fuzzy_lines
    /\ fuzzy' = [parked.fuzzy EXCEPT !.seen = SeenOnResume(@, fuzzy.seen)]
    /\ fuzzy_meds' = parked.fuzzy_meds
    /\ merged_meds' = parked.merged_meds
    /\ stages' = parked.stages
    /\ response' = parked.response
    /\ UNCHANGED direct
    /\ UNCHANGED moduleVars
    /\ UNCHANGED mergeVars

NextConcurrent == Next \/ Switch

SpecConcurrent == InitConcurrent /\ [][NextConcurrent]_vars

----------------------------------------------------------------------------
(* Claims about concurrent requests (specification SpecConcurrent)         *)

\* The three lists normalize_and_extract takes from the adapter's result
ExternalList(r, field) == IF ResultTruthy(r) THEN GetList(field) ELSE JList(<<>>)

\* The 200 answer of a request run alone, from its normalized text, the
\* external lists and the merged medications
SoloBundle(norm, merged, conds, allergies) ==
    [status |-> 200, ok |-> TRUE, error |-> FALSE,
     normalized |-> [norm EXCEPT !.needs_term_review = NeedsTermReview(norm.confidence)],
     medications |-> [k \in DOMAIN merged |-> WithSchedule(merged[k], _build_schedule(merged[k]))],
     conditions |-> FallbackOr(conds, _extract_conditions(norm.cleaned_text)),
     allergies |-> FallbackOr(allergies, _extract_allergies(norm.cleaned_text))]
SoloExtract(norm, r) ==
    SoloBundle(norm,
               _merge_medications(ExternalList(r, r.medications),
                   extract_medications_fuzzy(ALIAS_TO_CANONICAL, norm.cleaned_text)).value,
               ExternalList(r, r.conditions), ExternalList(r, r.allergies))

\* What the request with body b answers when it runs alone and the adapter
\* returns r (a reply that follows the schema, or None)
SoloResponse(b, r) ==
    IF RequestRaises(b) THEN ErrorResponse(500)
    ELSE IF ReviewedText(b) = <<>> THEN ErrorResponse(400)
    ELSE SoloExtract(normalize_ocr_text(ReviewedText(b)), r)

\* C14: no step of a request writes the alias index, and under every
\* interleaving of the steps of two requests each request answers what it
\* answers when run alone with the same body and the same external result.
C14_RequestsIndependent ==
    /\ alias_index = ALIAS_TO_CANONICAL
    /\ Responded => response = SoloResponse(body, bedrock_result)
    /\ parked.pc = "responded" => parked.response = SoloResponse(parked.body, parked.bedrock_result)

\* One request has answered while the other is in the middle of its scan,
\* having already accepted the drug the first request also found.
C14_Witness ==
    /\ Responded
    /\ response.status = 200
    /\ \E k \in DOMAIN fuzzy_meds : fuzzy_meds[k].name = tAspirin
    /\ parked.pc = "fuzzy"
    /\ parked.fuzzy.seen # {}
    /\ ~FuzzyDone(parked.fuzzy_lines, parked.fuzzy)

----------------------------------------------------------------------------
(* normalize_ocr_text on bounded texts (specification SpecNormalize)       *)

MaxWords == 52

\* n words separated by single spaces
RECURSIVE WordsText(_)
WordsText(n) ==
    IF n = 0 THEN <<>>
    ELSE IF n = 1 THEN <<"a">>
    ELSE WordsText(n - 1) \o <<" ", "a">>

tParacetamPipe == <<"P","a","r","a","c","e","t","a","m","0","|"," ","5","0","0","m","g">>
tAmoxiciPipes == <<"A","m","o","x","i","c","i","|","|","i","n">>
tA1Pipe == <<"A","1","|">>
tBurn5 == <<"b","u","r","n"," ","5","r","n","5">>
tCarnitine == <<"c","a","r","n","i","t","i","n","e"," ","O","D">>
tTabsNewlines == <<" ","a","\t","b","\n"," ","c","\r","\n">>
tWhitespaces == <<" ","\t","\n"," ">>
tMicrograms == <<"5","0",Micro,"g">>
tT1D0 == <<"T","1","D","0","S"," ","1","0","0","m","g">>

NormalizeTexts ==
    {WordsText(n) : n \in 0..MaxWords}
    \cup {WordsText(n) \o <<" ">> : n \in {9, 10}}
    \cup {tParacetamPipe, tAmoxiciPipes, tA1Pipe, tBurn5, tCarnitine, tTabsNewlines,
          tWhitespaces, tMicrograms, tT1D0, <<" ">>, tAspirinLine, tTwoDrugs,
          tFeverAllergy, tParacetam0l}

InitNormalize ==
    /\ pc = "idle"
    /\ PipelineIdle
    /\ FuzzyIdle
    /\ MergeIdle
    /\ ModuleReady
    /\ Alone

\* result = normalize_ocr_text(raw_text)
NormalizeCall ==
    /\ direct.pc = "idle"
    /\ \E raw_text \in NormalizeTexts :
          direct' = [fn |-> "normalize_ocr_text", pc |-> "returned", arg |-> raw_text,
                     ret |-> normalize_ocr_text(raw_text)]
    /\ UNCHANGED <<pc, body, normalized, call, bedrock_result, bedrock_meds,
                   bedrock_conditions, bedrock_allergies, fuzzy_lines, fuzzy,
                   fuzzy_meds, merged_meds, stages, response, parked>>
    /\ UNCHANGED moduleVars
    /\ UNCHANGED mergeVars

\* again = normalize_ocr_text(result["cleaned_text"])
NormalizeAgain ==
    /\ direct.fn = "normalize_ocr_text"
    /\ direct.pc = "returned"
    /\ direct' = [fn |-> "normalize_ocr_text", pc |-> "again",
                  arg |-> direct.ret.cleaned_text,
                  ret |-> normalize_ocr_text(direct.ret.cleaned_text)]
    /\ UNCHANGED <<pc, body, normalized, call, bedrock_result, bedrock_meds,
                   bedrock_conditions, bedrock_allergies, fuzzy_lines, fuzzy,
                   fuzzy_meds, merged_meds, stages, response, parked>>
    /\ UNCHANGED moduleVars
    /\ UNCHANGED mergeVars

NextNormalize == NormalizeCall \/ NormalizeAgain

SpecNormalize == InitNormalize /\ [][NextNormalize]_vars

----------------------------------------------------------------------------
(* Claims about normalize_ocr_text (specification SpecNormalize)           *)

NormalizeReturned == direct.fn = "normalize_ocr_text" /\ direct.pc = "returned"
NormalizedTwice == direct.fn = "normalize_ocr_text" /\ direct.pc = "again"

\* C15: a second pass of normalize over the cleaned text of a first pass
\* returns that text unchanged.
C15_SecondPassChangesNothing ==
    NormalizedTwice => direct.ret.cleaned_text = direct.arg

\* The number of words of a text: the maximal runs of non-whitespace
WordCount(text) ==
    Cardinality({i \in 1..Len(text) :
        text[i] \notin WhitespaceSet /\ (i = 1 \/ text[i - 1] \in WhitespaceSet)})

\* word_count / 50 clamped to [0.4, 0.95], in thousandths
Clamped(word_count) ==
    IF 1000 * word_count < 400 * 50 THEN 400
    ELSE IF 1000 * word_count > 950 * 50 THEN 950
    ELSE (1000 * word_count) \div 50

HasFlag(flags, name) == \E k \in DOMAIN flags : flags[k] = name

\* What C16 says of the result ret for the text of word_count words
ConfidenceAsStated(text, word_count, ret) ==
    /\ ret.confidence = Clamped(word_count)
    /\ HasFlag(ret.flags, "very_short_text") <=> word_count < 10
    /\ word_count = 0 =>
          /\ ret.cleaned_text = <<>>
          /\ ret.confidence = 400
          /\ HasFlag(ret.flags, "very_short_text")

\* C16: the confidence is word_count/50 clamped to [0.4, 0.95], the flag
\* very_short_text is present exactly under 10 words, and an empty or
\* whitespace-only text gives "", 0.4 and the flag.
C16_ConfidenceClamped ==
    (direct.fn = "normalize_ocr_text" /\ direct.pc \in {"returned", "again"})
        => ConfidenceAsStated(direct.arg, WordCount(direct.arg), direct.ret)

\* A text of more than 47 words has returned, at the upper end of the clamp.
C16_Witness ==
    /\ NormalizeReturned
    /\ WordCount(direct.arg) > 47
    /\ direct.ret.confidence = 950
    /\ direct.ret.flags = <<>>

----------------------------------------------------------------------------
(* _build_schedule on bounded entries (specification SpecSchedule)         *)

\* Frequency strings: the labels of FREQUENCY_MAP and strings as a reply writes them
fFourTimesDaily == <<"F","o","u","r"," ","t","i","m","e","s"," ","d","a","i","l","y">>
fThreeTimesDaily == <<"T","h","r","e","e"," ","t","i","m","e","s"," ","d","a","i","l","y">>
fOnceDaily == <<"O","n","c","e"," ","d","a","i","l","y">>
fAtBedtime == <<"A","t"," ","b","e","d","t","i","m","e">>
fAsNeeded == <<"A","s"," ","n","e","e","d","e","d">>
fImmediately == <<"I","m","m","e","d","i","a","t","e","l","y">>
fEvery6Hours == <<"E","v","e","r","y"," ","6"," ","h","o","u","r","s">>
fTwiceMorningNight == <<"T","w","i","c","e"," ","d","a","i","l","y"," ","(","m","o","r","n","i","n","g"," ","+"," ","n","i","g","h","t",")">>
fOnceAtNight == <<"O","n","c","e"," ","d","a","i","l","y"," ","(","a","t"," ","n","i","g","h","t",")">>
fTWICE == <<"T","W","I","C","E"," ","A"," ","D","A","Y">>
fTwiceOrThree == <<"T","w","i","c","e"," ","o","r"," ","t","h","r","e","e"," ","t","i","m","e","s"," ","d","a","i","l","y">>
fOnceAtBedtime == <<"o","n","c","e"," ","a","t"," ","b","e","d","t","i","m","e">>
f3TimesADay == <<"3"," ","t","i","m","e","s"," ","a"," ","d","a","y">>
fPrn == <<"1"," ","t","a","b"," ","P","R","N">>
fSosOnly == <<"s","o","s">>
fWeekly == <<"w","e","e","k","l","y">>
fThreeTimesAsNeeded == <<"T","h","r","e","e"," ","t","i","m","e","s"," ","d","a","i","l","y"," ","a","s"," ","n","e","e","d","e","d">>
ScheduleFrequencies ==
    {Absent, <<>>, tTwiceDaily, fFourTimesDaily, fThreeTimesDaily, fOnceDaily, fAtBedtime, fAsNeeded, fImmediately, fEvery6Hours, fTwiceMorningNight, fOnceAtNight, fTWICE, fTwiceOrThree, fOnceAtBedtime, f3TimesADay, fPrn, fSosOnly, fWeekly, fThreeTimesAsNeeded}

\* Duration strings
dFor2Weeks == <<"F","o","r"," ","2"," ","w","e","e","k","s">>
dFor3Months == <<"F","o","r"," ","3"," ","m","o","n","t","h","s">>
d5days == <<"5"," ","d","a","y","s">>
d10DAYS == <<"1","0"," ","D","A","Y","S">>
d1week == <<"1","w","e","e","k">>
dForAWeek == <<"f","o","r"," ","a"," ","w","e","e","k">>
d2Month == <<"x"," ","2"," ","M","o","n","t","h">>
d12Then3 == <<"1","2"," ","t","a","b","l","e","t","s",","," ","3"," ","w","e","e","k","s">>
dFor14Days == <<"F","o","r"," ","1","4"," ","d","a","y","s">>
ScheduleDurations ==
    {Absent, <<>>, tFor7Days, dFor2Weeks, dFor3Months, d5days, d10DAYS, d1week, dForAWeek, d2Month, d12Then3, dFor14Days}

\* Contexts scanned by the fuzzy stage
cAspirinStat == <<"A","s","p","i","r","i","n"," ","1","0","0","m","g"," ","s","t","a","t">>
cAspirinEvery6 == <<"A","s","p","i","r","i","n"," ","e","v","e","r","y"," ","6"," ","h","o","u","r","s"," ","f","o","r"," ","5"," ","d","a","y","s">>
cAspirinPlain == <<"A","s","p","i","r","i","n">>
cAspirin101 == <<"A","s","p","i","r","i","n"," ","1","-","0","-","1"," ","f","o","r"," ","2"," ","w","e","e","k","s">>
ScheduleContexts == {cAspirinStat, cAspirinEvery6, cAspirinPlain, cAspirin101}

\* Entries of the merged list: external entries and fuzzy candidates
ScheduleMeds ==
    {Med(tAspirin, t100mg, f, d, tOral, Absent) : f \in ScheduleFrequencies, d \in ScheduleDurations}
    \cup {FuzzyCandidate(tAspirin, c) : c \in ScheduleContexts}

InitSchedule ==
    /\ pc = "idle"
    /\ PipelineIdle
    /\ FuzzyIdle
    /\ MergeIdle
    /\ ModuleReady
    /\ Alone

\* schedule = _build_schedule(med)
ScheduleCall ==
    /\ direct.pc = "idle"
    /\ \E med \in ScheduleMeds :
          direct' = [fn |-> "_build_schedule", pc |-> "returned", arg |-> med,
                     ret |-> _build_schedule(med)]
    /\ UNCHANGED <<pc, body, normalized, call, bedrock_result, bedrock_meds,
                   bedrock_conditions, bedrock_allergies, fuzzy_lines, fuzzy,
                   fuzzy_meds, merged_meds, stages, response, parked>>
    /\ UNCHANGED moduleVars
    /\ UNCHANGED mergeVars

NextSchedule == ScheduleCall

SpecSchedule == InitSchedule /\ [][NextSchedule]_vars

----------------------------------------------------------------------------
(* Claims about _build_schedule (specification SpecSchedule)               *)

ScheduleReturned == direct.fn = "_build_schedule" /\ direct.pc = "returned"

\* The frequency and duration strings of an entry ('' for a missing key)
FrequencyOf(med) == IF med.frequency = Absent THEN <<>> ELSE med.frequency
DurationStringOf(med) == IF med.duration = Absent THEN <<>> ELSE med.duration

Has(freq, key) == Contains(Lower(freq), key)

\* No key of the frequency table and no as-needed marker occurs in freq.
NoPatternMatched(freq) ==
    /\ ~Has(freq, <<"f","o","u","r"," ","t","i","m","e","s">>)
    /\ ~Has(freq, <<"t","h","r","e","e"," ","t","i","m","e","s">>)
    /\ ~Has(freq, <<"t","w","i","c","e">>)
    /\ ~Has(freq, <<"o","n","c","e">>)
    /\ ~Has(freq, <<"a","t"," ","b","e","d","t","i","m","e">>)
    /\ ~Has(freq, <<"a","s"," ","n","e","e","d","e","d">>)
    /\ ~Has(freq, <<"n","e","e","d","e","d">>)
    /\ ~Has(freq, <<"p","r","n">>)
    /\ ~Has(freq, <<"s","o","s">>)

\* C17: a schedule built from a frequency string in which no entry of the
\* frequency table and no as-needed marker is found has frequency_per_day 0
\* and uncertainty true.
C17_UncertainWhenNoPattern ==
    (ScheduleReturned /\ NoPatternMatched(FrequencyOf(direct.arg)))
        => (direct.ret.frequency_per_day = 0 /\ direct.ret.uncertainty)

\* frequency_per_day as the ordered table gives it
TableValue(freq) ==
    IF Has(freq, <<"f","o","u","r"," ","t","i","m","e","s">>) THEN 4
    ELSE IF Has(freq, <<"t","h","r","e","e"," ","t","i","m","e","s">>) THEN 3
    ELSE IF Has(freq, <<"t","w","i","c","e">>) THEN 2
    ELSE IF Has(freq, <<"o","n","c","e">>) THEN 1
    ELSE IF Has(freq, <<"a","t"," ","b","e","d","t","i","m","e">>) THEN 1
    ELSE 0

\* The runs of digits of dur that are followed, after optional whitespace,
\* by day, week or month: <<first, last, start of the unit>>
UnitAt(dur, p, unit) == StartsWithAt(Lower(dur), p, unit)
NumberedUnits(dur) ==
    {r \in (1..Len(dur)) \X (1..Len(dur)) \X (1..Len(dur)) :
        /\ r[1] <= r[2] /\ r[2] < r[3]
        /\ \A i \in r[1]..r[2] : dur[i] \in DigitSet
        /\ r[1] = 1 \/ dur[r[1] - 1] \notin DigitSet
        /\ \A i \in (r[2] + 1)..(r[3] - 1) : dur[i] \in WhitespaceSet
        /\ \/ UnitAt(dur, r[3], <<"d","a","y">>)
           \/ UnitAt(dur, r[3], <<"w","e","e","k">>)
           \/ UnitAt(dur, r[3], <<"m","o","n","t","h">>)}
FirstNumberedUnit(found) == CHOOSE r \in found : \A q \in found : r[1] <= q[1]
ScaledDays(dur, r) ==
    ParseInt(SubSeq(dur, r[1], r[2])) *
        (IF UnitAt(dur, r[3], <<"w","e","e","k">>) THEN 7
         ELSE IF UnitAt(dur, r[3], <<"m","o","n","t","h">>) THEN 30 ELSE 1)
DaysOrNull(dur, found) ==
    IF found = {} THEN NoDays ELSE ScaledDays(dur, FirstNumberedUnit(found))

\* What C18 says of the schedule ret built for freq and dur
ScheduleAsStated(freq, dur, ret) ==
    /\ ret.frequency_per_day = TableValue(freq)
    /\ ret.duration_days = DaysOrNull(dur, NumberedUnits(dur))
    /\ freq = tTwiceDaily =>
          (ret.frequency_per_day = 2 /\ ~ret.as_needed /\ ~ret.uncertainty)
    /\ (freq = <<>> /\ dur = <<>>) =>
          (ret.frequency_per_day = 0 /\ ~ret.as_needed /\ ret.duration_days = NoDays
           /\ ret.uncertainty)
    /\ dur = dFor2Weeks => ret.duration_days = 14

\* C18: frequency_per_day is the value of the first key of the ordered table
\* found in the lowercased frequency (0 when none), duration_days is the
\* parsed integer scaled by 7 for weeks and 30 for months (null when no
\* duration is found), and the three examples of the claim hold.
C18_ScheduleFromTable ==
    ScheduleReturned
        => ScheduleAsStated(FrequencyOf(direct.arg), DurationStringOf(direct.arg), direct.ret)

\* A frequency holding two keys of the table has been scheduled with the
\* value of the earlier key, for a duration in weeks.
C18_Witness ==
    /\ ScheduleReturned
    /\ direct.arg.frequency = fTwiceOrThree
    /\ direct.arg.duration = dFor2Weeks
    /\ direct.ret.frequency_per_day = 3
    /\ direct.ret.duration_days = 14

----------------------------------------------------------------------------
(* Claims about the answers of the route (specification Spec)              *)

\* The request raises somewhere between the first line of the route and
\* its return: while the body is read, or in a stage of the pipeline, which
\* then does not reach its last stage.
RaisedWhileHandling ==
    \/ RequestRaises(body)
    \/ ReviewedText(body) # <<>> /\ stages # STAGE_ORDER

\* {ok: false, error: ...} without normalized and entities
StructuredError(r) ==
    /\ ~r.ok
    /\ r.error
    /\ r.normalized = NoNormalized
    /\ r.medications = <<>>

\* {ok: true, normalized, entities}
FullBundle(r) ==
    /\ r.ok
    /\ ~r.error
    /\ r.normalized # NoNormalized
    /\ r.normalized.cleaned_text # <<>>

\* C21: a request that raises is answered 500 with {ok:false, error}, every
\* answer that is not 200 is such a payload, and every 200 answer has
\* ok:true with the normalized and entities fields.
C21_FailuresStructured ==
    Responded =>
        /\ response.status \in {200, 400, 500}
        /\ RaisedWhileHandling => (response.status = 500 /\ StructuredError(response))
        /\ response.status # 200 => StructuredError(response)
        /\ response.status = 200 => FullBundle(response)

\* An exception inside the pipeline, after the external stage has returned,
\* has been answered with 500 and a structured payload.
C21_Witness ==
    /\ Responded
    /\ ~RequestRaises(body)
    /\ stages = <<"normalize", "external">>
    /\ response.status = 500
    /\ StructuredError(response)

----------------------------------------------------------------------------
(* Claims about two worked inputs (specification Spec)                     *)

nIbuprofen == <<"I","b","u","p","r","o","f","e","n">>
nParacetamol == <<"P","a","r","a","c","e","t","a","m","o","l">>
t200mgSpaced == <<"2","0","0"," ","m","g">>
t100mgSpaced == <<"1","0","0"," ","m","g">>
tParacetamolDose == <<"P","a","r","a","c","e","t","a","m","o","l"," ","1","0","0","m","g"," ","B","D">>

CharFixRecorded(norm) ==
    \E k \in DOMAIN norm.corrections : norm.corrections[k].type = "ocr_char_fix"

\* What C22 says of the stages run on "Ibuprofen 200mg BD for 7 days"
IbuprofenCourseAsStated(norm, candidates) ==
    /\ ~CharFixRecorded(norm)
    /\ norm.cleaned_text = tIbuprofenCourse
    /\ candidates = <<Med(nIbuprofen, t200mgSpaced, tTwiceDaily, tFor7Days, <<>>, FUZZY_NOTES)>>
    /\ _build_schedule(candidates[1]).frequency_per_day = 2
    /\ _build_schedule(candidates[1]).duration_days = 7

ScheduledAs(entries, per_day, days) ==
    /\ Len(entries) = 1
    /\ entries[1].schedule.frequency_per_day = per_day
    /\ entries[1].schedule.duration_days = days

\* C22: for "Ibuprofen 200mg BD for 7 days" no character rule fires, the
\* fuzzy stage returns the single candidate Ibuprofen, 200 mg, Twice daily,
\* For 7 days, and its schedule has frequency_per_day 2 and duration_days 7.
C22_IbuprofenCourse ==
    (body.reviewed_text = tIbuprofenCourse /\ FuzzyStageDone)
        => /\ IbuprofenCourseAsStated(normalized, fuzzy_meds)
           /\ (Bundle200 /\ bedrock_meds = JList(<<>>))
                 => ScheduledAs(response.medications, 2, 7)

\* The request for "Ibuprofen 200mg BD for 7 days" has been answered with
\* the one fuzzy candidate and its schedule.
C22_Witness ==
    /\ body.reviewed_text = tIbuprofenCourse
    /\ Bundle200
    /\ bedrock_meds = JList(<<>>)
    /\ Len(response.medications) = 1
    /\ response.medications[1].dosage = t200mgSpaced

\* The first character rule (0 between letters) is among the corrections.
ZeroFixRecorded(norm) ==
    \E k \in DOMAIN norm.corrections :
        norm.corrections[k].type = "ocr_char_fix" /\ norm.corrections[k].corrected = <<"o">>

\* The first word of the text is an alias of the index.
FirstWordIsAlias(index, text) ==
    /\ SplitWords(text) # <<>>
    /\ DictHas(index, Lower(SplitWords(text)[1]))

\* C23: for "Paracetam0l 100mg BD" with no external medication, the 0 is
\* turned into o, the token Paracetamol is an exact alias, and the bundle
\* holds exactly one medication, named Paracetamol.
C23_Paracetam0lRecovered ==
    (body.reviewed_text = tParacetam0lDose /\ ExternalDone)
        => /\ ZeroFixRecorded(normalized)
           /\ normalized.cleaned_text = tParacetamolDose
           /\ FirstWordIsAlias(alias_index, normalized.cleaned_text)
           /\ (Bundle200 /\ bedrock_meds = JList(<<>>))
                 => (Len(response.medications) = 1 /\ response.medications[1].name = nParacetamol)

\* The request for "Paracetam0l 100mg BD" has been answered, the external
\* stage having returned nothing, with the one medication Paracetamol.
C23_Witness ==
    /\ body.reviewed_text = tParacetam0lDose
    /\ Bundle200
    /\ ~ResultTruthy(bedrock_result)
    /\ Len(response.medications) = 1
    /\ response.medications[1].name = nParacetamol
    /\ response.medications[1].dosage = t100mgSpaced

----------------------------------------------------------------------------
(* DosageParser.parse (utils/dosage_parser.py)                             *)

\* INDIAN_SHORTHAND, in dict order: <<pattern, description, doses per day,
\* the timing slots set to True>>
INDIAN_SHORTHAND == <<
    <<Alt(<<Cat(<<WB, Lit(<<"o","d">>), WB>>), Cat(<<WB, Lit(<<"o",".","d">>), WB>>), Cat(<<WB, Lit(<<"1","-","0","-","0">>), WB>>)>>),
      <<"O","n","c","e"," ","d","a","i","l","y"," ","(","m","o","r","n","i","n","g",")">>, 1, {"morning"}>>,
    <<Alt(<<Cat(<<WB, Lit(<<"b","d">>), WB>>), Cat(<<WB, Lit(<<"b",".","d">>), WB>>), Cat(<<WB, Lit(<<"1","-","1","-","0">>), WB>>)>>),
      <<"T","w","i","c","e"," ","d","a","i","l","y"," ","(","m","o","r","n","i","n","g"," ","+"," ","e","v","e","n","i","n","g",")">>, 2, {"morning", "evening"}>>,
    <<Alt(<<Cat(<<WB, Lit(<<"t","d","s">>), WB>>), Cat(<<WB, Lit(<<"t",".","d",".","s">>), WB>>), Cat(<<WB, Lit(<<"1","-","1","-","1">>), WB>>)>>),
      <<"T","h","r","e","e"," ","t","i","m","e","s"," ","d","a","i","l","y"," ","(","m","o","r","n","i","n","g"," ","+"," ","a","f","t","e","r","n","o","o","n"," ","+"," ","e","v","e","n","i","n","g",")">>, 3, {"morning", "afternoon", "evening"}>>,
    <<Alt(<<Cat(<<WB, Lit(<<"q","i","d">>), WB>>), Cat(<<WB, Lit(<<"q",".","i",".","d">>), WB>>)>>),
      <<"F","o","u","r"," ","t","i","m","e","s"," ","d","a","i","l","y">>, 4, {"morning", "afternoon", "evening", "night"}>>,
    <<Alt(<<Cat(<<WB, Lit(<<"h","s">>), WB>>), Cat(<<WB, Lit(<<"a","t">>), SpPlus, Lit(<<"b","e","d","t","i","m","e">>), WB>>), Cat(<<WB, Lit(<<"a","t">>), SpPlus, Lit(<<"n","i","g","h","t">>), WB>>)>>),
      <<"A","t"," ","b","e","d","t","i","m","e">>, 1, {"night"}>>,
    <<Alt(<<Cat(<<WB, Lit(<<"s","o","s">>), WB>>), Cat(<<WB, Lit(<<"a","s">>), SpPlus, Lit(<<"n","e","e","d","e","d">>), WB>>), Cat(<<WB, Lit(<<"p","r","n">>), WB>>)>>),
      <<"A","s"," ","n","e","e","d","e","d">>, 0, {}>>,
    <<Cat(<<WB, Lit(<<"a","c">>), WB>>),
      <<"B","e","f","o","r","e"," ","m","e","a","l","s">>, 3, {"morning", "afternoon", "evening"}>>,
    <<Cat(<<WB, Lit(<<"p","c">>), WB>>),
      <<"A","f","t","e","r"," ","m","e","a","l","s">>, 3, {"morning", "afternoon", "evening"}>>,
    <<Alt(<<Cat(<<WB, Lit(<<"6","h">>), WB>>), Cat(<<WB, Lit(<<"e","v","e","r","y">>), SpPlus, Lit(<<"6">>), SpPlus, Lit(<<"h">>)>>)>>),
      <<"E","v","e","r","y"," ","6"," ","h","o","u","r","s">>, 4, {"morning", "afternoon", "evening", "night"}>>,
    <<Alt(<<Cat(<<WB, Lit(<<"8","h">>), WB>>), Cat(<<WB, Lit(<<"e","v","e","r","y">>), SpPlus, Lit(<<"8">>), SpPlus, Lit(<<"h">>)>>)>>),
      <<"E","v","e","r","y"," ","8"," ","h","o","u","r","s">>, 3, {"morning", "afternoon", "evening"}>>,
    <<Alt(<<Cat(<<WB, Lit(<<"1","2","h">>), WB>>), Cat(<<WB, Lit(<<"e","v","e","r","y">>), SpPlus, Lit(<<"1","2">>), SpPlus, Lit(<<"h">>)>>)>>),
      <<"T","w","i","c","e"," ","d","a","i","l","y"," ","(","e","v","e","r","y"," ","1","2"," ","h","o","u","r","s",")">>, 2, {"morning", "evening"}>>,
    <<Alt(<<Cat(<<WB, Lit(<<"2","4","h">>), WB>>), Cat(<<WB, Lit(<<"e","v","e","r","y">>), SpPlus, Lit(<<"2","4">>), SpPlus, Lit(<<"h">>)>>)>>),
      <<"O","n","c","e"," ","d","a","i","l","y">>, 1, {"morning"}>>
>>

\* FREQ_PATTERNS with a handler, in dict order: <<pattern, doses per day, timing>>
FREQ_PATTERNS == <<
    <<Cat(<<Lit(<<"o","n","c","e">>), SpPlus, Lit(<<"d","a","i","l","y">>)>>), 1, {"morning"}>>,
    <<Cat(<<Lit(<<"t","w","i","c","e">>), SpPlus, Lit(<<"d","a","i","l","y">>)>>), 2, {"morning", "evening"}>>,
    <<Cat(<<Lit(<<"t","h","r","e">>), Opt(Ch({"e"})), SpPlus, Lit(<<"t","i","m","e">>), Opt(Ch({"s"})), SpPlus, Lit(<<"d","a","i","l","y">>)>>), 3, {"morning", "afternoon", "evening"}>>,
    <<Cat(<<Lit(<<"f","o","u","r">>), SpPlus, Lit(<<"t","i","m","e">>), Opt(Ch({"s"})), SpPlus, Lit(<<"d","a","i","l","y">>)>>), 4, {"morning", "afternoon", "evening", "night"}>>
>>

\* for\s+(\d+)\s+(?:days?|d|weeks?|w|months?|m|doses?)
DURATION_PATTERN ==
    Cat(<<Lit(<<"f","o","r">>), SpPlus, Grp(1, Digits), SpPlus,
          Alt(<<Cat(<<Lit(<<"d","a","y">>), Opt(Ch({"s"}))>>), Ch({"d"}),
                Cat(<<Lit(<<"w","e","e","k">>), Opt(Ch({"s"}))>>), Ch({"w"}),
                Cat(<<Lit(<<"m","o","n","t","h">>), Opt(Ch({"s"}))>>), Ch({"m"}),
                Cat(<<Lit(<<"d","o","s","e">>), Opt(Ch({"s"}))>>)>>)>>)

\* The markers tested before the tables
AS_NEEDED_MARKERS == {<<"a","s"," ","n","e","e","d","e","d">>, <<"w","h","e","n"," ","n","e","e","d","e","d">>, <<"s","o","s">>, <<"p","r","n">>, <<"a","s"," ","r","e","q","u","i","r","e","d">>}

\* DosageSchedule(): the defaults of __init__
DosageSchedule ==
    [frequency_per_day |-> 1, timing |-> {}, as_needed |-> FALSE, duration_days |-> NoDays,
     instructions |-> <<>>, uncertainty |-> FALSE]

\* any(pattern in instruction_lower for pattern in [...])
AsNeededMarked(instruction_lower) ==
    \E marker \in AS_NEEDED_MARKERS : Contains(instruction_lower, marker)

\* The first row of the table, in order, whose pattern is found (0: none)
FirstRow(table, instruction_lower) ==
    LET hit == {k \in 1..Len(table) : re_search(table[k][1], instruction_lower, FALSE).found}
    IN  IF hit = {} THEN 0 ELSE SetMin(hit)

\* The schedule after the shorthand loop, the frequency patterns and the
\* test of matched
WithShorthand(schedule, row) ==
    [schedule EXCEPT !.frequency_per_day = IF row[3] > 0 THEN row[3] ELSE 1,
                     !.timing = row[4],
                     !.instructions = row[2]]
WithFrequency(schedule, row) ==
    [schedule EXCEPT !.frequency_per_day = row[2], !.timing = row[3]]
Unmatched(schedule) ==
    [schedule EXCEPT !.uncertainty = TRUE, !.frequency_per_day = 1]
Matched(schedule, shorthand, frequency) ==
    IF shorthand # 0 THEN WithShorthand(schedule, INDIAN_SHORTHAND[shorthand])
    ELSE IF frequency # 0 THEN WithFrequency(schedule, FREQ_PATTERNS[frequency])
    ELSE Unmatched(schedule)

\* duration_days from the match of DURATION_PATTERN
ParsedDuration(dm, text) ==
    IF ~dm.found THEN NoDays
    ELSE IF Contains(Group(text, dm, 0), <<"w","e","e","k">>)
         THEN ParseInt(Group(text, dm, 1)) * 7
    ELSE IF Contains(Group(text, dm, 0), <<"m","o","n","t","h">>)
         THEN ParseInt(Group(text, dm, 1)) * 30
    ELSE ParseInt(Group(text, dm, 1))
WithDuration(schedule, instruction_lower) ==
    [schedule EXCEPT !.duration_days =
        ParsedDuration(re_search(DURATION_PATTERN, instruction_lower, FALSE), instruction_lower)]

ParseLowered(schedule, instruction_lower) ==
    IF AsNeededMarked(instruction_lower)
    THEN [schedule EXCEPT !.as_needed = TRUE, !.frequency_per_day = 0]
    ELSE WithDuration(
            Matched(schedule, FirstRow(INDIAN_SHORTHAND, instruction_lower),
                    FirstRow(FREQ_PATTERNS, instruction_lower)),
            instruction_lower)

\* DosageParser.parse(dosage_instruction); NullV is a value that is no str
DosageParser_parse(dosage_instruction) ==
    IF dosage_instruction = NullV \/ dosage_instruction = <<>>
    THEN [DosageSchedule EXCEPT !.uncertainty = TRUE]
    ELSE ParseLowered([DosageSchedule EXCEPT !.instructions = dosage_instruction],
                      Strip(Lower(dosage_instruction)))

----------------------------------------------------------------------------
(* DosageParser.parse on bounded instructions (specification SpecDosage)   *)

\* Instructions as prescriptions write them
iOD == <<"O","D">>
iBD == <<"B","D">>
iTDS == <<"T","D","S">>
i500mgBD == <<"5","0","0","m","g"," ","B","D">>
i111 == <<"1","-","1","-","1">>
i101 == <<"1","-","0","-","1">>
i110 == <<"1","-","1","-","0">>
i100 == <<"1","-","0","-","0">>
iQID == <<"Q","I","D">>
iHS == <<"H","S">>
iSOS == <<"S","O","S">>
iAsNeededWide == <<"a","s"," "," ","n","e","e","d","e","d">>
iOdDotted == <<"o",".","d",".">>
iPC == <<"p","c">>
iEvery6 == <<"e","v","e","r","y"," ","6"," ","h","o","u","r","s">>
i12h == <<"1","2","h">>
iOnceDaily == <<"O","n","c","e"," ","d","a","i","l","y">>
iThreTimes == <<"t","h","r","e"," ","t","i","m","e"," ","d","a","i","l","y">>
iFourTimesDaily == <<"f","o","u","r"," ","t","i","m","e","s"," ","d","a","i","l","y">>
iTwiceADay == <<"t","w","i","c","e"," ","a"," ","d","a","y">>
iWithFood == <<"t","a","k","e"," ","w","i","t","h"," ","f","o","o","d">>
iBody == <<"b","o","d","y"," ","l","o","t","i","o","n">>
iSpacedBD == <<" "," ","B","D"," "," ">>
DosageInstructions ==
    {<<>>, iOD, iBD, iTDS, i500mgBD, i111, i101, i110, i100, iQID, iHS, iSOS, iAsNeededWide, iOdDotted, iPC, iEvery6, i12h, iOnceDaily, iThreTimes, iFourTimesDaily, iTwiceADay, iWithFood, iBody, iSpacedBD}

\* What follows the instruction
sFor10Days == <<" ","f","o","r"," ","1","0"," ","d","a","y","s">>
sFor2Weeks == <<" ","f","o","r"," ","2"," ","w","e","e","k","s">>
sFor1Month == <<" ","f","o","r"," ","1"," ","m","o","n","t","h">>
sFor3D == <<" ","f","o","r"," ","3"," ","d">>
sX5Days == <<" ","x"," ","5"," ","d","a","y","s">>
DurationSuffixes == {<<>>, sFor10Days, sFor2Weeks, sFor1Month, sFor3D, sX5Days}

ParseInputs ==
    {NullV} \cup {i \o s : i \in DosageInstructions, s \in DurationSuffixes}

InitDosage ==
    /\ pc = "idle"
    /\ PipelineIdle
    /\ FuzzyIdle
    /\ MergeIdle
    /\ ModuleReady
    /\ Alone

\* schedule = DosageParser.parse(instruction)
ParseCall ==
    /\ direct.pc = "idle"
    /\ \E instruction \in ParseInputs :
          direct' = [fn |-> "DosageParser.parse", pc |-> "returned", arg |-> instruction,
                     ret |-> DosageParser_parse(instruction)]
    /\ UNCHANGED <<pc, body, normalized, call, bedrock_result, bedrock_meds,
                   bedrock_conditions, bedrock_allergies, fuzzy_lines, fuzzy,
                   fuzzy_meds, merged_meds, stages, response, parked>>
    /\ UNCHANGED moduleVars
    /\ UNCHANGED mergeVars

NextDosage == ParseCall

SpecDosage == InitDosage /\ [][NextDosage]_vars

----------------------------------------------------------------------------
(* Claims about DosageParser.parse (specification SpecDosage)              *)

ParseReturned == direct.fn = "DosageParser.parse" /\ direct.pc = "returned"

\* The doses per day C24 states, per instruction
StatedDoses ==
    {<<iOD, 1>>, <<iBD, 2>>, <<i500mgBD, 2>>, <<iTDS, 3>>, <<i111, 3>>, <<i101, 2>>,
     <<i101 \o sFor10Days, 2>>}

\* C24: OD gives frequency_per_day 1, BD and "500mg BD" give 2, TDS and
\* "1-1-1" give 3, "1-0-1" and "1-0-1 for 10 days" give 2, and none of
\* them is flagged uncertain.
C24_ShorthandDosesPerDay ==
    ParseReturned =>
        \A stated \in StatedDoses :
            direct.arg = stated[1] =>
                (direct.ret.frequency_per_day = stated[2] /\ ~direct.ret.uncertainty)

----------------------------------------------------------------------------
(* Claims about the order of the scan (specification SpecFuzzy)            *)

\* The step accepts the token under examination.
AcceptStep == Len(fuzzy'.medications) > Len(fuzzy.medications)

\* Start positions of the current line remain after the current one at the
\* current window size.
StartsRemain(lines, st) ==
    st.i + 1 < Len(SplitWords(lines[st.li])) - WINDOW_SIZES[st.wi] + 1

\* C25: an acceptance at (line, window size, start) does not end the
\* examination of the other start positions at that window size: the scan
\* goes on with the next start position of the same line and window size.
C25_OtherStartsExamined ==
    [][(AcceptStep /\ StartsRemain(fuzzy_lines, fuzzy))
           => (fuzzy'.li = fuzzy.li /\ fuzzy'.wi = fuzzy.wi /\ fuzzy'.i = fuzzy.i + 1)]_vars

----------------------------------------------------------------------------
(* JSON texts: json.dumps and json.loads on strings without escapes        *)

\* A JSON value: k is one of obj, arr, str, num, null, true, false; an
\* object holds members (k = member, s the key, items the one value).
JV(k, s, items) == [k |-> k, s |-> s, items |-> items]
JStr(chars) == JV("str", chars, <<>>)
JArr(items) == JV("arr", <<>>, items)
JObj(members) == JV("obj", <<>>, members)
JMember(key, value) == JV("member", key, <<value>>)
JNone == JV("None", <<>>, <<>>)
JError == JV("JSONDecodeError", <<>>, <<>>)

Quote == "\""
JsonWs == {" ", "\t", "\n", "\r"}

\* json.dumps(value), with the default separators
RECURSIVE Dumps(_)
RECURSIVE DumpsItems(_)
DumpsItems(items) ==
    IF items = <<>> THEN <<>>
    ELSE IF Len(items) = 1 THEN Dumps(items[1])
    ELSE Dumps(items[1]) \o <<",", " ">> \o DumpsItems(Tail(items))
Dumps(v) ==
    CASE v.k = "str" -> <<Quote>> \o v.s \o <<Quote>>
      [] v.k = "num" -> v.s
      [] v.k = "null" -> <<"n","u","l","l">>
      [] v.k = "true" -> <<"t","r","u","e">>
      [] v.k = "false" -> <<"f","a","l","s","e">>
      [] v.k = "arr" -> <<"[">> \o DumpsItems(v.items) \o <<"]">>
      [] v.k = "obj" -> <<"{">> \o DumpsItems(v.items) \o <<"}">>
      [] v.k = "member" -> <<Quote>> \o v.s \o <<Quote, ":", " ">> \o Dumps(v.items[1])

\* json.loads: a recursive-descent scanner; a result is the position after
\* the value and the value, or an error.
ScanOk(pos, val) == [ok |-> TRUE, pos |-> pos, val |-> val]
ScanErr == [ok |-> FALSE, pos |-> 0, val |-> JError]
SkipWs(t, pos) == SetMin({q \in pos..(Len(t) + 1) : q = Len(t) + 1 \/ t[q] \notin JsonWs})
At(t, pos, c) == pos <= Len(t) /\ t[pos] = c

\* The string whose opening quote is at pos and whose closing quote is at
\* close; a control character ends the scan with an error.  The texts of
\* the model hold no backslash.
ClosingQuote(t, pos) ==
    SetMin({q \in (pos + 1)..(Len(t) + 1) : q = Len(t) + 1 \/ t[q] = Quote})
ScanString(t, pos, close) ==
    IF close > Len(t) \/ \E q \in (pos + 1)..(close - 1) : t[q] \in {"\\", "\n", "\r", "\t"}
    THEN ScanErr
    ELSE ScanOk(close + 1, JStr(SubSeq(t, pos + 1, close - 1)))
ScanNumber(t, pos, run) == ScanOk(pos + run, JV("num", SubSeq(t, pos, pos + run - 1), <<>>))

RECURSIVE ScanValue(_, _)
RECURSIVE ScanElements(_, _, _)
RECURSIVE ScanMembers(_, _, _)

\* after an element: ',' and the next element, or ']'
ScanElementsNext(t, pos, items) ==
    IF At(t, pos, ",") THEN ScanElements(t, SkipWs(t, pos + 1), items)
    ELSE IF At(t, pos, "]") THEN ScanOk(pos + 1, JArr(items))
    ELSE ScanErr
ScanAfterElement(t, r, items) ==
    IF ~r.ok THEN ScanErr ELSE ScanElementsNext(t, SkipWs(t, r.pos), Append(items, r.val))
ScanElements(t, pos, items) == ScanAfterElement(t, ScanValue(t, pos), items)
ScanArray(t, pos) ==
    IF At(t, pos, "]") THEN ScanOk(pos + 1, JArr(<<>>)) ELSE ScanElements(t, pos, <<>>)

\* after a member: ',' and the next member, or '}'
ScanMembersNext(t, pos, members) ==
    IF At(t, pos, ",") THEN ScanMembers(t, SkipWs(t, pos + 1), members)
    ELSE IF At(t, pos, "}") THEN ScanOk(pos + 1, JObj(members))
    ELSE ScanErr
ScanAfterMember(t, key, r, members) ==
    IF ~r.ok THEN ScanErr
    ELSE ScanMembersNext(t, SkipWs(t, r.pos), Append(members, JMember(key, r.val)))
ScanAfterKey(t, key, colon, members) ==
    IF ~At(t, colon, ":") THEN ScanErr
    ELSE ScanAfterMember(t, key, ScanValue(t, SkipWs(t, colon + 1)), members)
ScanKeyed(t, key, members) ==
    IF ~key.ok THEN ScanErr ELSE ScanAfterKey(t, key.val.s, SkipWs(t, key.pos), members)
ScanMembers(t, pos, members) ==
    IF ~At(t, pos, Quote) THEN ScanErr
    ELSE ScanKeyed(t, ScanString(t, pos, ClosingQuote(t, pos)), members)
ScanObject(t, pos) ==
    IF At(t, pos, "}") THEN ScanOk(pos + 1, JObj(<<>>)) ELSE ScanMembers(t, pos, <<>>)

ScanValue(t, pos) ==
    IF At(t, pos, "{") THEN ScanObject(t, SkipWs(t, pos + 1))
    ELSE IF At(t, pos, "[") THEN ScanArray(t, SkipWs(t, pos + 1))
    ELSE IF At(t, pos, Quote) THEN ScanString(t, pos, ClosingQuote(t, pos))
    ELSE IF StartsWithAt(t, pos, <<"n","u","l","l">>) THEN ScanOk(pos + 4, JV("null", <<>>, <<>>))
    ELSE IF StartsWithAt(t, pos, <<"t","r","u","e">>) THEN ScanOk(pos + 4, JV("true", <<>>, <<>>))
    ELSE IF StartsWithAt(t, pos, <<"f","a","l","s","e">>) THEN ScanOk(pos + 5, JV("false", <<>>, <<>>))
    ELSE IF pos <= Len(t) /\ t[pos] \in DigitSet
         THEN ScanNumber(t, pos, ClassRun(t, pos, DigitSet, TRUE, FALSE))
    ELSE ScanErr

\* json.loads(t): the value, when nothing but whitespace follows it
Loaded(t, r) == IF r.ok /\ SkipWs(t, r.pos) = Len(t) + 1 THEN r.val ELSE JError
json_loads(t) == Loaded(t, ScanValue(t, SkipWs(t, 1)))

----------------------------------------------------------------------------
(* _parse_bedrock_response and _parse_json_response on response texts      *)

\* The grave accent, one character, which SANY does not read in a string
Backtick == "<backtick>"

\* three grave accents, then (?:json)?
FENCE_RE == Cat(<<Lit(<<Backtick, Backtick, Backtick>>), Opt(Lit(<<"j","s","o","n">>))>>)
NONE_RE == Cat(<<WB, Lit(<<"N","o","n","e">>), WB>>)
TRUE_RE == Cat(<<WB, Lit(<<"T","r","u","e">>), WB>>)
FALSE_RE == Cat(<<WB, Lit(<<"F","a","l","s","e">>), WB>>)

\* str.find(c) and str.rfind(c), counting from 1; 0 for -1
Find(t, c) == IF \E i \in 1..Len(t) : t[i] = c THEN SetMin({i \in 1..Len(t) : t[i] = c}) ELSE 0
RFind(t, c) == IF \E i \in 1..Len(t) : t[i] = c THEN SetMax({i \in 1..Len(t) : t[i] = c}) ELSE 0

\* Python-style None/True/False replaced, in that order
PythonWordsFixed(json_str) ==
    re_sub(FALSE_RE, <<"f","a","l","s","e">>,
        re_sub(TRUE_RE, <<"t","r","u","e">>,
            re_sub(NONE_RE, <<"n","u","l","l">>, json_str)))

\* json_str.replace('\n', ' '), which only _parse_bedrock_response does
LinesJoined(json_str, join_lines) ==
    IF join_lines THEN StrReplace(json_str, <<"\n">>, <<" ">>) ELSE json_str

\* try: return json.loads(json_str)  except JSONDecodeError: return None
LoadedOrNone(v) == IF v = JError THEN JNone ELSE v

\* raw[start:end + 1] and what follows, for the text without its fences
FromBraces(raw, start, end, join_lines) ==
    IF start = 0 \/ end = 0 THEN JNone
    ELSE LoadedOrNone(json_loads(PythonWordsFixed(LinesJoined(SubSeq(raw, start, end), join_lines))))
ParseUnfenced(raw, join_lines) == FromBraces(raw, Find(raw, "{"), RFind(raw, "}"), join_lines)
ParseResponseText(raw, join_lines) == ParseUnfenced(Strip(re_sub(FENCE_RE, <<>>, raw)), join_lines)

\* _parse_bedrock_response(raw), on the characters of raw
_parse_bedrock_response_text(raw) == ParseResponseText(raw, TRUE)

\* _parse_json_response(raw) of the AI copy
_parse_json_response(raw) == ParseResponseText(raw, FALSE)

----------------------------------------------------------------------------
(* The parsers on bounded responses (specification SpecParse)              *)

kMedications == <<"m","e","d","i","c","a","t","i","o","n","s">>
kConditions == <<"c","o","n","d","i","t","i","o","n","s">>
kAllergies == <<"a","l","l","e","r","g","i","e","s">>
kName == <<"n","a","m","e">>
kNotes == <<"n","o","t","e","s">>
vNoneKnown == <<"N","o","n","e"," ","k","n","o","w","n">>
vTrueAsthma == <<"T","r","u","e"," ","a","s","t","h","m","a">>
vNone == <<"N","o","n","e">>
vSulfa == <<"s","u","l","f","a"," ","d","r","u","g","s">>

\* Objects of the prompt's schema
MedicationLists == {JArr(<<>>), JArr(<<JObj(<<JMember(kName, JStr(tAspirin))>>)>>),
                    JArr(<<JObj(<<JMember(kName, JStr(tAspirin)), JMember(kNotes, JStr(vNone))>>)>>)}
ConditionLists == {JArr(<<>>), JArr(<<JStr(tFever)>>)}
AllergyLists == {JArr(<<>>), JArr(<<JStr(tPenicillin)>>), JArr(<<JStr(vNoneKnown)>>),
                 JArr(<<JStr(tPenicillin), JStr(vSulfa)>>)}
SchemaObjects ==
    {JObj(<<JMember(kMedications, m), JMember(kConditions, c), JMember(kAllergies, a)>>) :
        m \in MedicationLists, c \in ConditionLists, a \in AllergyLists}

\* What the model writes around the object: <<before, after>>
wFenceJson == <<Backtick,Backtick,Backtick,"j","s","o","n","\n">>
wFence == <<Backtick,Backtick,Backtick>>
wFenceEnd == <<"\n",Backtick,Backtick,Backtick>>
wHere == <<"H","e","r","e"," ","i","s"," ","t","h","e"," ","e","x","t","r","a","c","t","i","o","n",":","\n">>
wHope == <<"\n","H","o","p","e"," ","t","h","i","s"," ","h","e","l","p","s",".">>
wDraft == <<"R","e","s","u","l","t"," ","{","d","r","a","f","t","}",":"," ">>
wSee == <<" ","(","s","e","e"," ","{","1","}",")">>
wNoneFound == <<"N","o","n","e"," ","o","f"," ","t","h","e"," ","r","e","s","t"," ","m","a","t","t","e","r","s","."," ">>
Wrappings ==
    {<<(<<>>), (<<>>)>>, <<wFenceJson, wFenceEnd>>, <<wFence, wFence>>,
     <<wHere \o wFenceJson, wFenceEnd \o wHope>>, <<wHere, wHope>>,
     <<wNoneFound, (<<>>)>>, <<wDraft, (<<>>)>>, <<(<<>>), wSee>>}

\* Responses without a JSON object
xNoJson == <<"n","o"," ","j","s","o","n"," ","h","e","r","e">>
xNotJson == <<"{"," ","n","o","t"," ","j","s","o","n"," ","}">>
xReversed == <<"}"," ","{">>
xOnlyOpen == <<"o","n","l","y"," ","{">>
xOnlyClose == <<"o","n","l","y"," ","}">>
xFenceOnly == <<Backtick,Backtick,Backtick,"j","s","o","n","\n",Backtick,Backtick,Backtick>>
xUnclosed == <<"{","\"","m","e","d","i","c","a","t","i","o","n","s","\"",":"," ","[">>
xSingleQuotes == <<"{","'","m","e","d","i","c","a","t","i","o","n","s","'",":"," ","[","]","}">>
xTwoObjects == <<"{","\"","a","\"",":"," ","1","}"," ","{","\"","b","\"",":"," ","2","}">>
BrokenResponses == {<<>>, xNoJson, xNotJson, xReversed, xOnlyOpen, xOnlyClose, xFenceOnly, xUnclosed, xSingleQuotes, xTwoObjects}

\* A response: its text and the object it encodes (JNone: none)
Wrapped(wrapping, object) ==
    [text |-> wrapping[1] \o Dumps(object) \o wrapping[2], object |-> object]
ParseResponses ==
    {Wrapped(w, object) : w \in Wrappings, object \in SchemaObjects}
    \cup {[text |-> x, object |-> JNone] : x \in BrokenResponses}

InitParse ==
    /\ pc = "idle"
    /\ PipelineIdle
    /\ FuzzyIdle
    /\ MergeIdle
    /\ ModuleReady
    /\ Alone

\* result = _parse_bedrock_response(response_text)
ParseBedrockCall ==
    /\ direct.pc = "idle"
    /\ \E r \in ParseResponses :
          direct' = [fn |-> "_parse_bedrock_response", pc |-> "returned", arg |-> r,
                     ret |-> _parse_bedrock_response_text(r.text)]
    /\ UNCHANGED <<pc, body, normalized, call, bedrock_result, bedrock_meds,
                   bedrock_conditions, bedrock_allergies, fuzzy_lines, fuzzy,
                   fuzzy_meds, merged_meds, stages, response, parked>>
    /\ UNCHANGED moduleVars
    /\ UNCHANGED mergeVars

\* result = _parse_json_response(response_text)
ParseJsonCall ==
    /\ direct.pc = "idle"
    /\ \E r \in ParseResponses :
          direct' = [fn |-> "_parse_json_response", pc |-> "returned", arg |-> r,
                     ret |-> _parse_json_response(r.text)]
    /\ UNCHANGED <<pc, body, normalized, call, bedrock_result, bedrock_meds,
                   bedrock_conditions, bedrock_allergies, fuzzy_lines, fuzzy,
                   fuzzy_meds, merged_meds, stages, response, parked>>
    /\ UNCHANGED moduleVars
    /\ UNCHANGED mergeVars

NextParse == ParseBedrockCall \/ ParseJsonCall

SpecParse == InitParse /\ [][NextParse]_vars

----------------------------------------------------------------------------
(* Claims about response parsing (specification SpecParse)                 *)

ParserReturned ==
    direct.fn \in {"_parse_bedrock_response", "_parse_json_response"} /\ direct.pc = "returned"

\* C26: a response holding one object of the schema, inside fences and
\* prose, parses to that object; a response without '{' or '}', or whose
\* text between the first '{' and the last '}' is no JSON, gives None.
C26_ObjectRecovered ==
    ParserReturned =>
        /\ direct.arg.object # JNone => direct.ret = direct.arg.object
        /\ direct.arg.object = JNone => direct.ret = JNone


\* ---------------------------------------------------------------------------
\* The fallback chain of _call_bedrock
\* ---------------------------------------------------------------------------

\* The two error codes the statement names
UnavailableCodes == {"ValidationException", "ResourceNotFoundException"}

\* The models of the first n invocations, in the stated order
StatedOrder == <<"claude-3-sonnet", "claude-3-haiku", "BEDROCK_MODEL_ID">>
InOrder(invoked) ==
    /\ Len(invoked) <= Len(StatedOrder)
    /\ \A k \in DOMAIN invoked : invoked[k][1] = StatedOrder[k]

\* One step of the loop that invoked the model at position k, the call having
\* done did: the next model is invoked exactly when did is one of the two
\* codes and a next model exists; any other error ends the chain with None,
\* and so does the last model being unavailable.
ChainAsStated(k, did, pc_next, idx_next, result_next) ==
    /\ (pc_next = "invoke") <=> (did \in UnavailableCodes /\ k < Len(StatedOrder))
    /\ pc_next = "invoke" => idx_next = k + 1
    /\ did # "response" /\ pc_next # "invoke" => pc_next = "unpack" /\ result_next = NoResult

\* C27: the models are invoked in the fixed order Sonnet, Haiku, configured
\* model; the next one is invoked if and only if the previous invocation
\* failed with ValidationException or ResourceNotFoundException; any other
\* error, or all three being unavailable, gives None with no further
\* invocation.
C27_FallbackChain ==
    [][pc = "invoke" =>
          /\ Len(call'.invoked) = Len(call.invoked) + 1
          /\ Len(call'.invoked) = call.model_idx
          /\ InOrder(call'.invoked)
          /\ ChainAsStated(call.model_idx, call'.invoked[Len(call'.invoked)][2],
                           pc', call'.model_idx, bedrock_result')]_vars

\* Sonnet and Haiku were unavailable, one with each code, and the configured
\* model answered with an object.
C27_Witness ==
    /\ pc = "unpack"
    /\ Len(call.invoked) = 3
    /\ {call.invoked[1][2], call.invoked[2][2]} = UnavailableCodes
    /\ call.invoked[3] = <<"BEDROCK_MODEL_ID", "response">>
    /\ ~bedrock_result.none


\* ---------------------------------------------------------------------------
\* extract_medications_fuzzy of src/AI/backend/services/bedrock_service.py
\* (specification SpecCopies)
\* ---------------------------------------------------------------------------

\* for line_idx, line in enumerate(lines): the context is taken around the
\* position of the line being scanned.
AfterLookup_AI(found, lines, st) ==
    IF FuzzyAccepts(found, st.seen)
    THEN [st EXCEPT
            !.seen = @ \cup {Lower(found)},
            !.medications = Append(@, FuzzyCandidate(found, Context(lines, st.li))),
            !.wi = @ + 1, !.i = 0]
    ELSE [st EXCEPT !.i = @ + 1]

\* if re.fullmatch(r'[\d\W]+', token) or len(token) < 3: continue
AfterToken_AI(index, tok, lines, st) ==
    IF TokenSkipped(tok) THEN [st EXCEPT !.i = @ + 1]
    ELSE AfterLookup_AI(_find_drug_fuzzy(index, tok), lines, st)

FuzzyStep_AI(index, lines, st) ==
    IF FuzzyDone(lines, st) THEN st
    ELSE IF st.wi > Len(WINDOW_SIZES) THEN [st EXCEPT !.li = @ + 1, !.wi = 1, !.i = 0]
    ELSE IF ~OnToken(lines, st) THEN [st EXCEPT !.wi = @ + 1, !.i = 0]
    ELSE AfterToken_AI(index, Token(lines, st), lines, st)

RECURSIVE FuzzyRun_AI(_, _, _)
FuzzyRun_AI(index, lines, st) ==
    IF FuzzyDone(lines, st) THEN st
    ELSE FuzzyRun_AI(index, lines, FuzzyStep_AI(index, lines, st))

extract_medications_fuzzy_AI(index, text) ==
    FuzzyRun_AI(index, TextLines(text), FuzzyStart).medications

InitCopies ==
    /\ pc = "idle"
    /\ PipelineIdle
    /\ FuzzyIdle
    /\ MergeIdle
    /\ ModuleReady
    /\ Alone

\* The backend copy is called with text.
BackendFuzzyCall ==
    /\ direct.pc = "idle"
    /\ \E text \in FuzzyTexts :
          direct' = [fn |-> "extract_medications_fuzzy", pc |-> "backend", arg |-> text,
                     ret |-> <<extract_medications_fuzzy(alias_index, text)>>]
    /\ UNCHANGED <<pc, body, normalized, call, bedrock_result, bedrock_meds,
                   bedrock_conditions, bedrock_allergies, fuzzy_lines, fuzzy,
                   fuzzy_meds, merged_meds, stages, response, parked>>
    /\ UNCHANGED moduleVars
    /\ UNCHANGED mergeVars

\* The AI copy is called with the same text and the same alias index.
AIFuzzyCall ==
    /\ direct.fn = "extract_medications_fuzzy"
    /\ direct.pc = "backend"
    /\ direct' = [direct EXCEPT
                    !.pc = "both",
                    !.ret = Append(@, extract_medications_fuzzy_AI(alias_index, direct.arg))]
    /\ UNCHANGED <<pc, body, normalized, call, bedrock_result, bedrock_meds,
                   bedrock_conditions, bedrock_allergies, fuzzy_lines, fuzzy,
                   fuzzy_meds, merged_meds, stages, response, parked>>
    /\ UNCHANGED moduleVars
    /\ UNCHANGED mergeVars

NextCopies == BackendFuzzyCall \/ AIFuzzyCall

SpecCopies == InitCopies /\ [][NextCopies]_vars

BothReturned == direct.fn = "extract_medications_fuzzy" /\ direct.pc = "both"

\* C28: given the same alias index, the two copies of
\* extract_medications_fuzzy return the same candidate list (names, order,
\* dosage, frequency, duration, route) for every text, texts with a repeated
\* line included.
C28_CopiesAgree == BothReturned => direct.ret[1] = direct.ret[2]

\* The candidate lists of the two copies hold the same names in the same order.
SameNames == 
    /\ Len(direct.ret[1]) = Len(direct.ret[2])
    /\ \A k \in DOMAIN direct.ret[1] : direct.ret[1][k].name = direct.ret[2][k].name
CopiesAgreeOnNames == BothReturned => SameNames

\* A line occurs more than once in the text
RepeatsALine(text) ==
    \E j, k \in DOMAIN TextLines(text) : j < k /\ TextLines(text)[j] = TextLines(text)[k]
CopiesAgreeWithoutRepeats == BothReturned /\ ~RepeatsALine(direct.arg) => direct.ret[1] = direct.ret[2]


\* ---------------------------------------------------------------------------
\* The context of a fuzzy candidate (specification SpecFuzzy)
\* ---------------------------------------------------------------------------

\* 'previous line, own line, next line' of the line at position li
StatedContext(lines, li) ==
    JoinSpace(SubSeq(lines, IF li = 1 THEN 1 ELSE li - 1,
                            IF li = Len(lines) THEN li ELSE li + 1))

\* The label of the table row whose pattern matches earliest in text (the
\* earlier row on equal positions), <<>> when no row matches
EarliestRow(map, text) ==
    LET hits == {k \in DOMAIN map : re_search(map[k][1], text, TRUE).found}
        at(k) == re_search(map[k][1], text, TRUE).start
    IN  IF hits = {} THEN 0
        ELSE CHOOSE k \in hits :
                \A j \in hits : at(k) < at(j) \/ (at(k) = at(j) /\ k <= j)
FirstInText(map, text) ==
    IF EarliestRow(map, text) = 0 THEN <<>> ELSE map[EarliestRow(map, text)][2]

\* The candidate as the statement gives it for a drug accepted on line li
CandidateAsStated(c, lines, li) ==
    /\ c.dosage = _extract_dosage(StatedContext(lines, li))
    /\ c.duration = _extract_duration(StatedContext(lines, li))
    /\ c.frequency = _extract_frequency(StatedContext(lines, li))
    /\ c.route = FirstInText(ROUTE_MAP, StatedContext(lines, li))

\* C29: dosage, duration and route of a fuzzy candidate are the first match
\* in the concatenation of the previous, own and next line, and the frequency
\* the first matching row of its table in that concatenation; lines further
\* away never contribute.
C29_ContextOfOwnLine ==
    [][AcceptStep =>
          CandidateAsStated(fuzzy'.medications[Len(fuzzy'.medications)],
                            fuzzy_lines, fuzzy.li)]_vars


\* ---------------------------------------------------------------------------
\* needs_term_review with the default threshold (specification Spec)
\* ---------------------------------------------------------------------------

\* The flag as the endpoint is stated to set it: confidence (thousandths of
\* the 0..1 value) below the default threshold of 70
FlagAsStated(norm) == norm.needs_term_review = (norm.confidence < 70 * 1000)

\* C30: with the default configuration every ok:true response has
\* normalized.needs_term_review = true: the flag is confidence < threshold,
\* the confidence never exceeds 0.95 and the threshold is 70.
C30_AlwaysNeedsTermReview ==
    response.status = 200 =>
        /\ response.ok
        /\ FlagAsStated(response.normalized)
        /\ response.normalized.confidence <= 950
        /\ response.normalized.needs_term_review

\* A 200 answer for a text of 48 words, whose confidence is the highest one.
C30_Witness ==
    /\ pc = "responded"
    /\ response.status = 200
    /\ WordCount(body.reviewed_text) >= 48
    /\ response.normalized.confidence = 950
    /\ response.normalized.needs_term_review

=============================================================================
